---- MODULE Spec2Model ----
(***************************************************************************)
(* A model of the declarative diagram engine: the grid layout resolver     *)
(* (engine/useGridLayout.ts), the timeline flattener and evaluator         *)
(* (engine/useTimeline.ts) and the DiagramEngine component that calls both *)
(* once per rendered frame (engine/DiagramEngine.tsx).                     *)
(*                                                                         *)
(* JavaScript numbers are modelled as exact rationals <<n, d>> in lowest   *)
(* terms with d > 0.  A call that raises yields the marker Thrown, and a   *)
(* field that is absent (undefined) holds NoNumber or Undefined.           *)
(***************************************************************************)
EXTENDS Integers, Sequences, FiniteSets, TLC

VARIABLES config, fps, durationInFrames, frame, layout, tstate, view

vars == <<config, fps, durationInFrames, frame, layout, tstate, view>>

-----------------------------------------------------------------------------
(* Numbers *)

Undefined == "<undefined>"
NoNumber == <<0, 0>>
Thrown == <<1, 0>>

Abs(i) == IF i < 0 THEN -i ELSE i

RECURSIVE GCD(_, _)
GCD(a, b) == IF b = 0 THEN a ELSE GCD(b, a % b)

Rat(n, d) ==
  LET s == IF d < 0 THEN -1 ELSE 1
      g == GCD(Abs(n), Abs(d))
  IN  <<(s * n) \div g, (s * d) \div g>>

Num(i) == <<i, 1>>
Zero == <<0, 1>>
One == <<1, 1>>

IsNum(a) == a[2] > 0

\* Products are taken over reduced terms so the intermediate integers stay
\* small.
AddOn(a, b, g) == Rat(a[1] * (b[2] \div g) + b[1] * (a[2] \div g),
                      (a[2] \div g) * b[2])
MulOn(a, b, g, h) == Rat((a[1] \div g) * (b[1] \div h),
                         (a[2] \div h) * (b[2] \div g))
Denominators(a, b) == IF a[2] = 0 \/ b[2] = 0 THEN 1 ELSE GCD(a[2], b[2])
Across(n, d) == IF n = 0 \/ d = 0 THEN 1 ELSE GCD(Abs(n), d)
RNeg(a) == <<-a[1], a[2]>>
RAdd(a, b) == AddOn(a, b, Denominators(a, b))
RSub(a, b) == RAdd(a, RNeg(b))
RMul(a, b) == MulOn(a, b, Across(a[1], b[2]), Across(b[1], a[2]))
RDiv(a, b) == IF b[1] < 0 THEN RMul(a, <<-b[2], -b[1]>>)
              ELSE RMul(a, <<b[2], b[1]>>)
LtOn(a, b, g) == a[1] * (b[2] \div g) < b[1] * (a[2] \div g)
RLt(a, b) == LtOn(a, b, Denominators(a, b))
RLe(a, b) == ~RLt(b, a)
RAbs(a) == <<Abs(a[1]), a[2]>>

\* Math.max of two numbers; a raised operand never yields a value.
RMax(a, b) ==
  IF ~IsNum(a) \/ ~IsNum(b) THEN Thrown
  ELSE IF RLt(a, b) THEN b ELSE a

\* Math.round: the nearest integer, halves rounded up.
MathRound(a) == (2 * a[1] + a[2]) \div (2 * a[2])

RECURSIVE SeqMax(_)
SeqMax(s) ==
  IF Len(s) = 1 THEN s[1]
  ELSE LET m == SeqMax(Tail(s)) IN IF s[1] > m THEN s[1] ELSE m

\* remotion's interpolate(input, inputRange, outputRange) with both
\* extrapolations clamped; inputRange must be strictly increasing.
StrictlyIncreasing(xs) == \A i \in 1..(Len(xs) - 1) : xs[i] < xs[i + 1]

Interpolate(input, xs, ys) ==
  IF ~StrictlyIncreasing(xs) THEN Thrown
  ELSE IF input <= xs[1] THEN Num(ys[1])
  ELSE IF input >= xs[Len(xs)] THEN Num(ys[Len(ys)])
  ELSE LET i == CHOOSE k \in 1..(Len(xs) - 1) : xs[k] <= input /\ input < xs[k + 1]
       IN  RAdd(Num(ys[i]),
                Rat((input - xs[i]) * (ys[i + 1] - ys[i]), xs[i + 1] - xs[i]))

-----------------------------------------------------------------------------
(* Timing defaults and dim levels (useTimeline.ts) *)

DEFAULT_FILL_DURATION == <<4, 5>>
DEFAULT_DRAW_DURATION == <<2, 5>>
DEFAULT_SHOW_DURATION == <<2, 5>>
FADE_OUT_LOOKAHEAD_NODE == 3
FADE_OUT_LOOKAHEAD_ARROW == 2
FADE_OUT_S == <<2, 5>>
DIM_NODE == <<3, 10>>
DIM_ARROW == <<3, 20>>
DIM_CONTAINER == <<3, 10>>

-----------------------------------------------------------------------------
(* Timeline flattening *)

NoStepLabel == [num |-> 0, text |-> Undefined]

getDefaultDuration(action) ==
  CASE action = "fillBox" -> DEFAULT_FILL_DURATION
    [] action = "dimBox" -> DEFAULT_FILL_DURATION
    [] action = "drawLine" -> DEFAULT_DRAW_DURATION
    [] action = "showContainer" -> DEFAULT_SHOW_DURATION
    [] OTHER -> DEFAULT_DRAW_DURATION

\* Variant: the parent's group wins over the step's own.
CoalesceParentFirst(a, b) == IF b = Undefined THEN a ELSE b

\* step.group ?? parentGroup
Coalesce(a, b) == IF a = Undefined THEN b ELSE a

FlatEvent(action, source, target, startFrame, durationFrames, step, group) ==
  [action |-> action, source |-> source, target |-> target,
   startFrame |-> startFrame, durationFrames |-> durationFrames,
   step |-> step, group |-> group]

\* flattenStep(step, parentGroup) acting on the closure state (events, cursor).
RECURSIVE flattenStep(_, _, _, _)
RECURSIVE flattenChildren(_, _, _, _, _, _)

\* Variant: a hold step does not advance the cursor.
flattenStepThroughHolds(step, parentGroup, acc, rate) ==
  IF step.action = "hold" THEN
    [events |-> Append(acc.events,
                  FlatEvent("hold", "step", Undefined, acc.cursor,
                            MathRound(RMul(step.duration, rate)), NoStepLabel,
                            Undefined)),
     cursor |-> acc.cursor]
  ELSE IF step.action = "parallel" THEN
    flattenChildren(step.steps, Coalesce(step.group, parentGroup),
                    acc.cursor, 0, acc, rate)
  ELSE
    LET duration == IF step.duration = NoNumber
                    THEN getDefaultDuration(step.action) ELSE step.duration
        durationFrames == MathRound(RMul(duration, rate))
    IN  [events |-> Append(acc.events,
                     FlatEvent(step.action, "step", step.target, acc.cursor,
                               durationFrames, step.step,
                               Coalesce(step.group, parentGroup))),
         cursor |-> acc.cursor + durationFrames]

flattenStep(step, parentGroup, acc, rate) ==
  IF step.action = "hold" THEN
    LET durationFrames == MathRound(RMul(step.duration, rate))
    IN  [events |-> Append(acc.events,
                     FlatEvent("hold", "step", Undefined, acc.cursor,
                               durationFrames, NoStepLabel, Undefined)),
         cursor |-> acc.cursor + durationFrames]
  ELSE IF step.action = "parallel" THEN
    flattenChildren(step.steps, Coalesce(step.group, parentGroup),
                    acc.cursor, 0, acc, rate)
  ELSE
    LET duration == IF step.duration = NoNumber
                    THEN getDefaultDuration(step.action) ELSE step.duration
        durationFrames == MathRound(RMul(duration, rate))
    IN  [events |-> Append(acc.events,
                     FlatEvent(step.action, "step", step.target, acc.cursor,
                               durationFrames, step.step,
                               Coalesce(step.group, parentGroup))),
         cursor |-> acc.cursor + durationFrames]

\* Variant: the cursor advances by the last child's duration.
flattenChildrenByLast(children, group, parallelStart, maxDuration, acc, rate) ==
  IF children = <<>> THEN
    [events |-> acc.events, cursor |-> parallelStart + maxDuration]
  ELSE
    LET r == flattenStep(Head(children), group,
                         [events |-> acc.events, cursor |-> parallelStart], rate)
    IN  flattenChildren(Tail(children), group, parallelStart,
                        r.cursor - parallelStart, r, rate)

\* The loop over the children of a parallel step.
flattenChildren(children, group, parallelStart, maxDuration, acc, rate) ==
  IF children = <<>> THEN
    [events |-> acc.events, cursor |-> parallelStart + maxDuration]
  ELSE
    LET r == flattenStep(Head(children), group,
                         [events |-> acc.events, cursor |-> parallelStart], rate)
        d == r.cursor - parallelStart
    IN  flattenChildren(Tail(children), group, parallelStart,
                        IF d > maxDuration THEN d ELSE maxDuration, r, rate)

RECURSIVE flattenSteps(_, _, _)
flattenSteps(steps, acc, rate) ==
  IF steps = <<>> THEN acc
  ELSE flattenSteps(Tail(steps), flattenStep(Head(steps), Undefined, acc, rate), rate)

RECURSIVE flattenPhases(_, _, _)
flattenPhases(phases, acc, rate) ==
  IF phases = <<>> THEN acc
  ELSE
    LET phase == Head(phases)
        next ==
          IF phase.type \in {"hold", "dim", "reveal"} THEN
            LET durationFrames == MathRound(RMul(phase.duration, rate))
            IN  [events |-> Append(acc.events,
                             FlatEvent(phase.type, "phase", Undefined, acc.cursor,
                                       durationFrames, NoStepLabel, Undefined)),
                 cursor |-> acc.cursor + durationFrames]
          ELSE IF phase.type = "sequence" THEN flattenSteps(phase.steps, acc, rate)
          ELSE acc
    IN  flattenPhases(Tail(phases), next, rate)

flattenTimeline(timeline, rate) ==
  flattenPhases(timeline, [events |-> <<>>, cursor |-> 0], rate).events

EventEnd(e) == e.startFrame + e.durationFrames

EventEnds(events) == [i \in 1..Len(events) |-> EventEnd(events[i])]

\* Variant: the end of the last flattened event, as if events never overlapped.
calculateTotalDurationOfLast(timeline, rate) ==
  LET events == flattenTimeline(timeline, rate)
  IN  IF Len(events) = 0 THEN 0 ELSE EventEnd(events[Len(events)])

calculateTotalDuration(timeline, rate) ==
  LET events == flattenTimeline(timeline, rate)
  IN  IF Len(events) = 0 THEN 0 ELSE SeqMax(EventEnds(events))

-----------------------------------------------------------------------------
(* Timeline evaluation: the helpers of useTimeline at one frame *)

\* null (no lookahead target) and Infinity (a group that never fades out),
\* kept apart from every frame number, which is >= 0.
Null == -1
Infinity == -2

IsAnim(e) == e.action # "hold" /\ e.action # "dim" /\ e.action # "reveal"

animEventsOf(events) == SelectSeq(events, IsAnim)

totalFramesOf(events) ==
  IF Len(events) > 0 THEN SeqMax(EventEnds(events)) ELSE 0

lookaheadOf(evt) ==
  IF evt.action = "drawLine" THEN FADE_OUT_LOOKAHEAD_ARROW ELSE FADE_OUT_LOOKAHEAD_NODE

computeFadeOutStart(evtIndex, evt, animEvents) ==
  IF evtIndex + lookaheadOf(evt) > Len(animEvents) THEN Null
  ELSE EventEnd(animEvents[evtIndex + lookaheadOf(evt)])

\* !evt.group: undefined and the empty string are both falsy.
HasGroup(evt) == evt.group # Undefined /\ evt.group # ""

\* Variant: the trigger of the last member seen replaces the one stored.
groupTriggerAfterLast(glt, group, fadeOutStart) ==
  IF fadeOutStart = Null THEN Infinity ELSE fadeOutStart

\* Math.max(groupLatestTriggerFrame[g] ?? 0, fadeOutStart), or Infinity
groupTriggerAfter(glt, group, fadeOutStart) ==
  IF fadeOutStart = Null THEN Infinity
  ELSE IF group \notin DOMAIN glt THEN (IF fadeOutStart > 0 THEN fadeOutStart ELSE 0)
  ELSE IF glt[group] = Infinity THEN Infinity
  ELSE IF fadeOutStart > glt[group] THEN fadeOutStart ELSE glt[group]

Assign(glt, group, val) ==
  [g \in (DOMAIN glt) \cup {group} |-> IF g = group THEN val ELSE glt[g]]

\* First pass: the loop that fills groupLatestTriggerFrame, from index i on.
RECURSIVE groupPass(_, _, _)
groupPass(i, animEvents, glt) ==
  IF i > Len(animEvents) THEN glt
  ELSE IF ~HasGroup(animEvents[i]) THEN groupPass(i + 1, animEvents, glt)
  ELSE groupPass(i + 1, animEvents,
         Assign(glt, animEvents[i].group,
                groupTriggerAfter(glt, animEvents[i].group,
                  computeFadeOutStart(i, animEvents[i], animEvents))))

EmptyMap == [g \in {} |-> 0]

groupLatestTriggerFrame(animEvents) == groupPass(1, animEvents, EmptyMap)

\* The fade-out start eventEnvelope settles on before the guard (null: none).
fadeOutStartOf(evt, evtIndex, animEvents, glt) ==
  IF HasGroup(evt) /\ evt.group \in DOMAIN glt
  THEN (IF glt[evt.group] = Infinity THEN Null ELSE glt[evt.group])
  ELSE computeFadeOutStart(evtIndex, evt, animEvents)

fadeOutFramesOf(rate) == MathRound(RMul(FADE_OUT_S, rate))

\* The guard on the breakpoints, and the inputRange handed to interpolate.
guardedRange(onset, fadeInEnd, fadeOutStart, fadeOutFrames) ==
  IF fadeOutStart = Null THEN <<onset, fadeInEnd>>
  ELSE IF fadeOutStart <= fadeInEnd
  THEN <<onset, fadeInEnd, fadeInEnd + 1, fadeInEnd + 1 + fadeOutFrames>>
  ELSE <<onset, fadeInEnd, fadeOutStart, fadeOutStart + fadeOutFrames>>

envelopeRange(evt, evtIndex, animEvents, glt, rate) ==
  guardedRange(evt.startFrame, evt.startFrame + evt.durationFrames,
               fadeOutStartOf(evt, evtIndex, animEvents, glt),
               fadeOutFramesOf(rate))

envelopeOver(range, f) ==
  IF Len(range) = 2 THEN Interpolate(f, range, <<0, 1>>)
  ELSE Interpolate(f, range, <<0, 1, 1, 0>>)

eventEnvelope(evt, evtIndex, animEvents, glt, rate, f) ==
  envelopeOver(envelopeRange(evt, evtIndex, animEvents, glt, rate), f)

\* Variant: the draw ramp is extrapolated past the event instead of clamped.
eventDrawProgressUnclamped(evt, f) ==
  IF evt.durationFrames = 0
  THEN Interpolate(f, <<evt.startFrame, evt.startFrame>>, <<0, 1>>)
  ELSE RDiv(Num(f - evt.startFrame), Num(evt.durationFrames))

\* Variant: the draw ramp comes back down after the event, like an envelope.
eventDrawProgressRetracting(evt, f) ==
  Interpolate(f, <<evt.startFrame, evt.startFrame + evt.durationFrames,
                   evt.startFrame + evt.durationFrames + 1,
                   evt.startFrame + evt.durationFrames + 2>>, <<0, 1, 1, 0>>)

eventDrawProgress(evt, f) ==
  Interpolate(f, <<evt.startFrame, evt.startFrame + evt.durationFrames>>, <<0, 1>>)

\* Math.max over a loop that starts from 0.
RMaxOver(S) ==
  IF \E x \in S : ~IsNum(x) THEN Thrown
  ELSE CHOOSE x \in S \cup {Zero} : \A y \in S \cup {Zero} : RLe(y, x)

Matching(animEvents, action, target) ==
  {i \in 1..Len(animEvents) :
     animEvents[i].action = action /\ animEvents[i].target = target}

maxBrightOf(animEvents, glt, action, target, rate, f) ==
  RMaxOver({eventEnvelope(animEvents[i], i, animEvents, glt, rate, f) :
              i \in Matching(animEvents, action, target)})

maxDrawOf(animEvents, action, target, f) ==
  RMaxOver({eventDrawProgress(animEvents[i], f) :
              i \in Matching(animEvents, action, target)})

\* dim + (1 - dim) * brightness
opacityOf(dim, brightness) ==
  IF ~IsNum(brightness) THEN Thrown
  ELSE RAdd(dim, RMul(RSub(One, dim), brightness))

ElementAnimState(brightness, drawProgress, dim) ==
  [brightness |-> brightness, drawProgress |-> drawProgress,
   opacity |-> opacityOf(dim, brightness)]

\* Variant: the difference is not clamped at 0.
nodeBrightnessUnclamped(maxBright, globalFloor, dimAmount) ==
  IF ~IsNum(maxBright) \/ ~IsNum(dimAmount) THEN Thrown
  ELSE RSub(RMax(maxBright, globalFloor), dimAmount)

\* Variant: the global floor lifts the brightness left by the dimBox.
nodeBrightnessFloored(maxBright, globalFloor, dimAmount) ==
  IF ~IsNum(maxBright) \/ ~IsNum(dimAmount) THEN Thrown
  ELSE RMax(RMax(RSub(maxBright, dimAmount), Zero), globalFloor)

\* Math.max(Math.max(maxBright, globalFloor) - dimAmount, 0)
nodeBrightness(maxBright, globalFloor, dimAmount) ==
  IF ~IsNum(maxBright) \/ ~IsNum(dimAmount) THEN Thrown
  ELSE RMax(RSub(RMax(maxBright, globalFloor), dimAmount), Zero)

nodeStateOf(id, animEvents, glt, rate, f, globalFloor) ==
  ElementAnimState(
    nodeBrightness(maxBrightOf(animEvents, glt, "fillBox", id, rate, f),
                   globalFloor, maxDrawOf(animEvents, "dimBox", id, f)),
    RMax(maxDrawOf(animEvents, "fillBox", id, f), globalFloor),
    DIM_NODE)

\* Variant: a grace interval of three seconds.
flowEndOfLongGrace(animEvents, totalFrames, rate) ==
  IF Len(animEvents) > 0
  THEN EventEnd(animEvents[Len(animEvents)]) + MathRound(RMul(Num(3), rate))
  ELSE totalFrames

\* [...animEvents].reverse().find((e) => e.action !== "hold")
flowEndOf(animEvents, totalFrames, rate) ==
  IF Len(animEvents) > 0
  THEN EventEnd(animEvents[Len(animEvents)]) + MathRound(RMul(Num(2), rate))
  ELSE totalFrames

finalRampOf(flowEnd, rate, f) ==
  Interpolate(f, <<flowEnd - MathRound(RMul(DEFAULT_DRAW_DURATION, rate)), flowEnd>>,
              <<0, 1>>)

connStateFrom(maxBright, maxDraw, finalRamp, globalFloor) ==
  ElementAnimState(RMax(RMax(maxBright, finalRamp), globalFloor),
                   RMax(RMax(maxDraw, globalFloor), finalRamp), DIM_ARROW)

connStateOf(connId, animEvents, glt, rate, f, globalFloor, flowEnd) ==
  connStateFrom(maxBrightOf(animEvents, glt, "drawLine", connId, rate, f),
                maxDrawOf(animEvents, "drawLine", connId, f),
                finalRampOf(flowEnd, rate, f), globalFloor)

Members(nodes, containerId) ==
  {k \in 1..Len(nodes) : nodes[k].container = containerId}

\* Variant: a container is lit by its own events and the floor only.
containerStateOfOwnOnly(id, nodes, nodeStates, animEvents, glt, rate, f, globalFloor) ==
  ElementAnimState(
    RMax(maxBrightOf(animEvents, glt, "showContainer", id, rate, f), globalFloor),
    One, DIM_CONTAINER)

containerStateOf(id, nodes, nodeStates, animEvents, glt, rate, f, globalFloor) ==
  ElementAnimState(
    RMax(RMax(maxBrightOf(animEvents, glt, "showContainer", id, rate, f),
              RMaxOver({nodeStates[nodes[i].id].brightness : i \in Members(nodes, id)})),
         globalFloor),
    One, DIM_CONTAINER)

-----------------------------------------------------------------------------
(* Global floor and global opacity *)

\* Array.prototype.find: the index of the first match, 0 when there is none.
FindFirst(events, matches) ==
  IF matches = {} THEN 0
  ELSE CHOOSE i \in matches : \A j \in matches : i <= j

WithAction(events, action) ==
  {i \in 1..Len(events) : events[i].action = action}

FirstDim(events) == FindFirst(events, WithAction(events, "dim"))
FirstReveal(events) == FindFirst(events, WithAction(events, "reveal"))

IsBookend(e) ==
  e.source = "phase" /\ (e.action = "hold" \/ e.action = "dim" \/ e.action = "reveal")

\* The loop of the no-dim branch: the end of the leading run of phase events.
RECURSIVE sequenceStartFrom(_, _, _)
sequenceStartFrom(i, events, sequenceStart) ==
  IF i > Len(events) \/ ~IsBookend(events[i]) THEN sequenceStart
  ELSE sequenceStartFrom(i + 1, events,
         IF EventEnd(events[i]) > sequenceStart
         THEN EventEnd(events[i]) ELSE sequenceStart)

\* The first event after the dim phase (0: none).
firstPostDim(events, dimEnd) ==
  FindFirst(events,
    {i \in 1..Len(events) :
       events[i].startFrame >= dimEnd /\ events[i].action # "dim"})

\* Variant: the floor is cut when the dim phase starts.
dimBranchFromStart(events, f, dimStart, dimEnd, post) ==
  [floor |-> IF f >= dimStart THEN Zero ELSE One,
   opacity |-> IF post # 0 /\ f >= events[post].startFrame THEN One
               ELSE IF f >= dimEnd THEN Zero
               ELSE IF f >= dimStart
               THEN Interpolate(f, <<dimStart, dimEnd>>, <<1, 0>>)
               ELSE One]

\* The branch taken when a dim phase exists.
dimBranch(events, f, dimStart, dimEnd, post) ==
  [floor |-> IF f >= dimEnd THEN Zero ELSE One,
   opacity |-> IF post # 0 /\ f >= events[post].startFrame THEN One
               ELSE IF f >= dimEnd THEN Zero
               ELSE IF f >= dimStart
               THEN Interpolate(f, <<dimStart, dimEnd>>, <<1, 0>>)
               ELSE One]

\* Variant: the cut comes one frame after the sequence start.
noDimBranchLate(events, f) ==
  [floor |-> IF f > sequenceStartFrom(1, events, 0) THEN Zero ELSE One,
   opacity |-> One]

\* The branch taken when there is none: a hard cut at the sequence start.
noDimBranch(events, f) ==
  [floor |-> IF f >= sequenceStartFrom(1, events, 0) THEN Zero ELSE One,
   opacity |-> One]

dimOrNot(events, f, di) ==
  IF di # 0
  THEN dimBranch(events, f, events[di].startFrame, EventEnd(events[di]),
                 firstPostDim(events, EventEnd(events[di])))
  ELSE noDimBranch(events, f)

\* Variant: the floor is only ramped during the reveal, not held afterwards.
revealBranchRampOnly(events, f, g, ri) ==
  [globalFloor |->
     IF ri = 0 THEN g.floor
     ELSE IF f >= events[ri].startFrame /\ f < EventEnd(events[ri])
     THEN RMax(g.floor,
               Interpolate(f, <<events[ri].startFrame, EventEnd(events[ri])>>,
                           <<0, 1>>))
     ELSE g.floor,
   globalOpacity |-> g.opacity]

\* Variant: the reveal ramp runs from 1 down to 0.
revealBranchFalling(events, f, g, ri) ==
  [globalFloor |->
     IF ri = 0 THEN g.floor
     ELSE IF f >= EventEnd(events[ri]) THEN One
     ELSE IF f >= events[ri].startFrame
     THEN RMax(g.floor,
               Interpolate(f, <<events[ri].startFrame, EventEnd(events[ri])>>,
                           <<1, 0>>))
     ELSE g.floor,
   globalOpacity |-> g.opacity]

revealBranch(events, f, g, ri) ==
  [globalFloor |->
     IF ri = 0 THEN g.floor
     ELSE IF f >= EventEnd(events[ri]) THEN One
     ELSE IF f >= events[ri].startFrame
     THEN RMax(g.floor,
               Interpolate(f, <<events[ri].startFrame, EventEnd(events[ri])>>,
                           <<0, 1>>))
     ELSE g.floor,
   globalOpacity |-> g.opacity]

computeGlobals(events, f) ==
  revealBranch(events, f, dimOrNot(events, f, FirstDim(events)),
               FirstReveal(events))

-----------------------------------------------------------------------------
(* Connection ids (types.ts) *)

IsNodeRef(target) == target.kind = "node"

endpointId(target) ==
  IF IsNodeRef(target) THEN target.id
  ELSE "container:" \o target.container \o ":" \o target.edge

\* if (def.id) return def.id: undefined and "" both fall through.
getConnectionId(def) ==
  IF def.id # Undefined /\ def.id # "" THEN def.id
  ELSE endpointId(def.from) \o "->" \o endpointId(def.to)

\* Variant: the evaluator keys every connection by its endpoints.
connIdsOfEndpoints(connections) ==
  [i \in 1..Len(connections) |->
     endpointId(connections[i].from) \o "->" \o endpointId(connections[i].to)]

connIdsOf(connections) ==
  [i \in 1..Len(connections) |-> getConnectionId(connections[i])]

-----------------------------------------------------------------------------
(* useTimeline *)

NullState == [kind |-> "null"]
ThrownState == [kind |-> "thrown"]
NotRendered == [kind |-> "none"]

NoCurrentStep == [num |-> 0, text |-> Undefined, progress |-> NoNumber]

Range(s) == {s[i] : i \in DOMAIN s}

Ids(defs) == {defs[i].id : i \in 1..Len(defs)}

Started(animEvents, f) ==
  {i \in 1..Len(animEvents) :
     animEvents[i].step # NoStepLabel /\ f >= animEvents[i].startFrame}

stepAt(evt, f) ==
  [num |-> evt.step.num, text |-> evt.step.text,
   progress |-> eventDrawProgress(evt, f)]

\* Variant: the first labelled event that has started.
currentStepOfFirst(animEvents, f) ==
  IF Started(animEvents, f) = {} THEN NoCurrentStep
  ELSE stepAt(animEvents[CHOOSE k \in Started(animEvents, f) :
                           \A j \in Started(animEvents, f) : k <= j], f)

\* The step-indicator loop: the last labelled event that has started.
currentStepOf(animEvents, f) ==
  IF Started(animEvents, f) = {} THEN NoCurrentStep
  ELSE stepAt(animEvents[CHOOSE k \in Started(animEvents, f) :
                           \A j \in Started(animEvents, f) : j <= k], f)

sequenceIndicatorOpacityOf(flowEnd, rate, f) ==
  IF f >= flowEnd THEN Zero
  ELSE Interpolate(f, <<flowEnd - fadeOutFramesOf(rate) * 2, flowEnd>>, <<1, 0>>)

\* globalFloor > 0.01, indicatorOpacity > 0.01
Visible(x) == RLt(<<1, 100>>, x)

totalStepsOf(animEvents) ==
  Cardinality({i \in 1..Len(animEvents) : animEvents[i].step # NoStepLabel})

Raised(nodeStates, connStates, containerStates, currentStep, seqOpacity) ==
  \/ \E id \in DOMAIN nodeStates :
       ~IsNum(nodeStates[id].brightness) \/ ~IsNum(nodeStates[id].drawProgress)
  \/ \E id \in DOMAIN connStates :
       ~IsNum(connStates[id].brightness) \/ ~IsNum(connStates[id].drawProgress)
  \/ \E id \in DOMAIN containerStates : ~IsNum(containerStates[id].brightness)
  \/ (currentStep # NoCurrentStep /\ ~IsNum(currentStep.progress))
  \/ ~IsNum(seqOpacity)

\* The returned TimelineState, unless some interpolate call raised.
timelineState(globals, totalSteps, nodeStates, connStates, containerStates, currentStep, seqOpacity, indicatorOpacity) ==
  IF Raised(nodeStates, connStates, containerStates, currentStep, seqOpacity)
  THEN ThrownState
  ELSE [kind |-> "state",
        nodes |-> nodeStates,
        connections |-> connStates,
        containers |-> containerStates,
        currentStep |-> IF Visible(indicatorOpacity) THEN currentStep
                        ELSE NoCurrentStep,
        totalSteps |-> totalSteps,
        indicatorOpacity |-> indicatorOpacity,
        globalOpacity |-> globals.globalOpacity,
        globalFloor |-> globals.globalFloor]

\* The container loop and the step indicator, given the node states.
evaluateRest(nodes, connections, containers, f, rate, globals, animEvents, glt, flowEnd, nodeStates, seqOpacity) ==
  timelineState(globals, totalStepsOf(animEvents), nodeStates,
    [id \in Range(connIdsOf(connections)) |->
       connStateOf(id, animEvents, glt, rate, f, globals.globalFloor, flowEnd)],
    [id \in Ids(containers) |->
       containerStateOf(id, nodes, nodeStates, animEvents, glt, rate, f,
                        globals.globalFloor)],
    currentStepOf(animEvents, f), seqOpacity,
    IF Visible(globals.globalFloor) THEN Zero ELSE seqOpacity)

\* The node loop, given the first pass over the groups.
evaluateElements(nodes, connections, containers, f, rate, globals, animEvents, glt, flowEnd) ==
  evaluateRest(nodes, connections, containers, f, rate, globals, animEvents, glt,
    flowEnd,
    [id \in Ids(nodes) |->
       nodeStateOf(id, animEvents, glt, rate, f, globals.globalFloor)],
    sequenceIndicatorOpacityOf(flowEnd, rate, f))

evaluateAnim(events, nodes, connections, containers, f, rate, animEvents) ==
  evaluateElements(nodes, connections, containers, f, rate,
    computeGlobals(events, f), animEvents, groupLatestTriggerFrame(animEvents),
    flowEndOf(animEvents, totalFramesOf(events), rate))

evaluate(events, nodes, connections, containers, f, rate) ==
  evaluateAnim(events, nodes, connections, containers, f, rate, animEventsOf(events))

\* Variant: only a frame rate below 1 counts as a still.
useTimelineBelowOne(timeline, nodes, connections, containers, f, rate) ==
  IF Len(timeline) = 0 THEN NullState
  ELSE IF RLt(rate, One) THEN NullState
  ELSE evaluate(flattenTimeline(timeline, rate), nodes, connections, containers,
                f, rate)

useTimeline(timeline, nodes, connections, containers, f, rate) ==
  IF Len(timeline) = 0 THEN NullState
  ELSE IF RLe(rate, One) THEN NullState
  ELSE evaluate(flattenTimeline(timeline, rate), nodes, connections, containers,
                f, rate)

-----------------------------------------------------------------------------
(* Grid layout resolution (useGridLayout.ts) *)

DEFAULT_CANVAS == [width |-> 1920, height |-> 1080]
DEFAULT_HEADER_FRAC == <<3, 50>>
DEFAULT_FOOTER_FRAC == <<3, 100>>
DEFAULT_STEP_INDICATOR_FRAC == <<1, 20>>
DEFAULT_CONTAINER_INSET_FRAC == <<3, 50>>
CONTAINER_LABEL_H == 24
OUTER_BOX_W_FRAC == <<31, 50>>
OUTER_BOX_H_FRAC == <<8, 25>>
INNER_BOX_W_FRAC == <<29, 50>>
INNER_BOX_H_FRAC == <<11, 20>>

\* theme.spacing of both presets
SPACING_PAGE == 48
SPACING_ELEMENT == 16

NoCanvas == [width |-> 0, height |-> 0]
NoAlign == [containerId |-> Undefined, innerCol |-> Null]
NoWaypoints == <<[x |-> NoNumber, y |-> NoNumber]>>

Point(x, y) == [x |-> x, y |-> y]

\* a ?? b for an optional number
OrElse(a, b) == IF a = NoNumber THEN b ELSE a

LayoutError(message) == [kind |-> "error", message |-> message]

NodeNotFound(id) == "Node \"" \o id \o "\" not found in layout"
ContainerNotFound(id) == "Container \"" \o id \o "\" not found in layout"

\* x.kind = "error" for a point that could not be computed
IsError(x) == x.kind = "error"
Ok(pt) == [kind |-> "ok", x |-> pt.x, y |-> pt.y]

canvasOf(grid) == IF grid.canvas = NoCanvas THEN DEFAULT_CANVAS ELSE grid.canvas

metricsFrom(grid, containerW, containerH, gridTop, gridBottom) ==
  [containerW |-> containerW, containerH |-> containerH,
   gridTop |-> gridTop, gridBottom |-> gridBottom,
   cellW |-> RDiv(containerW, Num(grid.cols)),
   cellH |-> RDiv(RSub(gridBottom, gridTop), Num(grid.rows))]

\* The measurements derived from the canvas, before any element is placed.
gridMetricsOn(grid, containerW, containerH) ==
  metricsFrom(grid, containerW, containerH,
    RMul(containerH, OrElse(grid.headerFrac, DEFAULT_HEADER_FRAC)),
    RMul(containerH,
         RSub(RSub(One, OrElse(grid.footerFrac, DEFAULT_FOOTER_FRAC)),
              OrElse(grid.stepIndicatorFrac, DEFAULT_STEP_INDICATOR_FRAC))))

gridMetrics(grid) ==
  gridMetricsOn(grid, Num(canvasOf(grid).width - SPACING_PAGE * 2),
                Num(canvasOf(grid).height - SPACING_PAGE * 2))

Half(a) == RDiv(a, Num(2))

outerCellCenter(m, row, col) ==
  Point(RAdd(RMul(m.cellW, Num(col)), Half(m.cellW)),
        RAdd(RAdd(m.gridTop, RMul(m.cellH, Num(row))), Half(m.cellH)))

containerBox(cdef, left, right, top, bottom, mfPad) ==
  [def |-> cdef, left |-> left, top |-> top,
   width |-> RSub(right, left), height |-> RSub(bottom, top),
   labelHeight |-> CONTAINER_LABEL_H,
   innerGrid |-> [left |-> RAdd(left, mfPad),
                  top |-> RAdd(RAdd(top, mfPad), Num(CONTAINER_LABEL_H)),
                  cellWidth |-> RDiv(RSub(RSub(right, mfPad), RAdd(left, mfPad)),
                                     Num(cdef.innerGrid.cols)),
                  cellHeight |-> RSub(RSub(bottom, mfPad),
                                      RAdd(RAdd(top, mfPad), Num(CONTAINER_LABEL_H)))]]

containerAround(m, cdef, inset, rowMidY, reach) ==
  containerBox(cdef,
    RAdd(RMul(m.cellW, Num(cdef.span.fromCol)), inset),
    RSub(RMul(m.cellW, Num(cdef.span.toCol + 1)), inset),
    RSub(rowMidY, reach), RAdd(rowMidY, reach), Num(SPACING_ELEMENT))

\* One pass of the container loop.
resolveContainer(m, cdef) ==
  containerAround(m, cdef,
    RMul(m.cellW, OrElse(cdef.insetFrac, DEFAULT_CONTAINER_INSET_FRAC)),
    outerCellCenter(m, cdef.span.fromRow, 0).y,
    RMul(m.cellH, <<13, 25>>))

\* A Record<string, T> filled by a loop: a later definition of an id wins.
LastWith(defs, id) ==
  CHOOSE i \in 1..Len(defs) :
    defs[i].id = id /\ \A j \in (i + 1)..Len(defs) : defs[j].id # id

resolveContainers(m, containers) ==
  [id \in {containers[i].id : i \in 1..Len(containers)} |->
     resolveContainer(m, containers[LastWith(containers, id)])]

innerCenterIn(c, col) ==
  Ok(Point(RAdd(RAdd(c.innerGrid.left, RMul(c.innerGrid.cellWidth, Num(col))),
                Half(c.innerGrid.cellWidth)),
           RAdd(c.innerGrid.top, Half(c.innerGrid.cellHeight))))

innerCellCenter(resolvedContainers, containerId, col) ==
  IF containerId \notin DOMAIN resolvedContainers
  THEN LayoutError(ContainerNotFound(containerId))
  ELSE innerCenterIn(resolvedContainers[containerId], col)

Truthy(str) == str # Undefined /\ str # ""

ResolvedNode(ndef, center, width, height) ==
  [kind |-> "node", def |-> ndef, center |-> center, width |-> width,
   height |-> height, isInner |-> ndef.container # Undefined]

\* Node inside a container: the inner grid.
innerNode(resolvedContainers, ndef, center) ==
  IF IsError(center) THEN center
  ELSE ResolvedNode(ndef, Point(center.x, center.y),
         RMul(resolvedContainers[ndef.container].innerGrid.cellWidth,
              INNER_BOX_W_FRAC),
         RMul(resolvedContainers[ndef.container].innerGrid.cellHeight,
              INNER_BOX_H_FRAC))

\* Node outside a container, aligned to an inner column's x.
alignedNode(m, ndef, inner) ==
  IF IsError(inner) THEN inner
  ELSE ResolvedNode(ndef,
         Point(inner.x, outerCellCenter(m, ndef.position.row, ndef.position.col).y),
         RMul(m.cellW, OUTER_BOX_W_FRAC),
         RMul(m.cellH, OrElse(ndef.boxHeightFrac, OUTER_BOX_H_FRAC)))

defaultHFrac(wCols, hRows) ==
  IF hRows > 1 THEN RMul(Num(hRows), <<18, 25>>)
  ELSE IF wCols > 1 THEN <<13, 25>> ELSE OUTER_BOX_H_FRAC

\* Standard outer node.
outerNode(m, ndef, wCols, hRows, startCenter) ==
  ResolvedNode(ndef,
    Point(RAdd(startCenter.x, Half(RMul(m.cellW, Num(wCols - 1)))),
          RAdd(startCenter.y, Half(RMul(m.cellH, Num(hRows - 1))))),
    RMul(m.cellW, IF wCols > 1 THEN RMul(Num(wCols), <<23, 25>>)
                  ELSE OUTER_BOX_W_FRAC),
    RMul(m.cellH, OrElse(ndef.boxHeightFrac, defaultHFrac(wCols, hRows))))

\* One pass of the node loop: the resolved node, or the error it raises.
resolveNode(m, resolvedContainers, ndef) ==
  IF ndef.container # Undefined /\ Truthy(ndef.container) /\ ndef.innerCol # Null
  THEN innerNode(resolvedContainers, ndef,
         innerCellCenter(resolvedContainers, ndef.container, ndef.innerCol))
  ELSE IF ndef.alignToInnerCol # NoAlign
  THEN alignedNode(m, ndef,
         innerCellCenter(resolvedContainers, ndef.alignToInnerCol.containerId,
                         ndef.alignToInnerCol.innerCol))
  ELSE outerNode(m, ndef,
         IF ndef.widthCols = Null THEN 1 ELSE ndef.widthCols,
         IF ndef.heightRows = Null THEN 1 ELSE ndef.heightRows,
         outerCellCenter(m, ndef.position.row, ndef.position.col))

Failed(each) == {i \in 1..Len(each) : IsError(each[i])}

FirstFailure(each) == each[CHOOSE i \in Failed(each) : \A j \in Failed(each) : i <= j]

nodesFrom(nodes, each) ==
  IF Failed(each) # {} THEN FirstFailure(each)
  ELSE [kind |-> "nodes",
        byId |-> [id \in {nodes[i].id : i \in 1..Len(nodes)} |->
                    each[LastWith(nodes, id)]]]

\* The node loop: resolvedNodes, or the first error raised.
resolveNodes(m, resolvedContainers, nodes) ==
  nodesFrom(nodes,
    [i \in 1..Len(nodes) |-> resolveNode(m, resolvedContainers, nodes[i])])

edgePoint(n, edge, hbw, hbh) ==
  CASE edge = "right" -> Ok(Point(RAdd(n.center.x, hbw), n.center.y))
    [] edge = "left" -> Ok(Point(RSub(n.center.x, hbw), n.center.y))
    [] edge = "top" -> Ok(Point(n.center.x, RSub(n.center.y, hbh)))
    [] edge = "bottom" -> Ok(Point(n.center.x, RAdd(n.center.y, hbh)))

nodeEdge(resolvedNodes, nodeId, edge) ==
  IF nodeId \notin DOMAIN resolvedNodes THEN LayoutError(NodeNotFound(nodeId))
  ELSE edgePoint(resolvedNodes[nodeId], edge, Half(resolvedNodes[nodeId].width),
                 Half(resolvedNodes[nodeId].height))

containerEdge(resolvedContainers, containerId, edge, y) ==
  IF containerId \notin DOMAIN resolvedContainers
  THEN LayoutError(ContainerNotFound(containerId))
  ELSE Ok(Point(IF edge = "left" THEN resolvedContainers[containerId].left
                ELSE RAdd(resolvedContainers[containerId].left,
                          resolvedContainers[containerId].width), y))

\* Variant: left and right are exchanged.
edgeByMirrored(dx, dy) ==
  IF RLt(RAbs(dy), RAbs(dx))
  THEN (IF RLt(Zero, dx) THEN "left" ELSE "right")
  ELSE (IF RLt(Zero, dy) THEN "bottom" ELSE "top")

edgeBy(dx, dy) ==
  IF RLt(RAbs(dy), RAbs(dx))
  THEN (IF RLt(Zero, dx) THEN "right" ELSE "left")
  ELSE (IF RLt(Zero, dy) THEN "bottom" ELSE "top")

inferEdge(from, to) == edgeBy(RSub(to.x, from.x), RSub(to.y, from.y))

getTargetCenter(m, resolvedNodes, resolvedContainers, target) ==
  IF IsNodeRef(target) THEN
    IF target.id \notin DOMAIN resolvedNodes
    THEN LayoutError(NodeNotFound(target.id))
    ELSE Ok(resolvedNodes[target.id].center)
  ELSE
    IF target.container \notin DOMAIN resolvedContainers
    THEN LayoutError(ContainerNotFound(target.container))
    ELSE containerEdge(resolvedContainers, target.container, target.edge,
           outerCellCenter(m, resolvedContainers[target.container].def.span.fromRow,
                           0).y)

Horizontal(edge) == edge = "right" \/ edge = "left"
Vertical(edge) == edge = "top" \/ edge = "bottom"

\* Variant: two horizontal edges are joined through the vertical midpoint.
autoRouteThroughMidY(from, fromEdge, to, toEdge) ==
  IF RLt(RAbs(RSub(from.y, to.y)), One) THEN <<from, to>>
  ELSE IF RLt(RAbs(RSub(from.x, to.x)), One) THEN <<from, to>>
  ELSE IF Vertical(fromEdge) /\ Vertical(toEdge) THEN <<from, to>>
  ELSE <<from, Point(from.x, Half(RAdd(from.y, to.y))),
         Point(to.x, Half(RAdd(from.y, to.y))), to>>

autoRoute(from, fromEdge, to, toEdge) ==
  IF RLt(RAbs(RSub(from.y, to.y)), One) THEN <<from, to>>
  ELSE IF RLt(RAbs(RSub(from.x, to.x)), One) THEN <<from, to>>
  ELSE IF Horizontal(fromEdge) /\ Horizontal(toEdge)
  THEN <<from, Point(Half(RAdd(from.x, to.x)), from.y),
         Point(Half(RAdd(from.x, to.x)), to.y), to>>
  ELSE IF Vertical(fromEdge) /\ Vertical(toEdge) THEN <<from, to>>
  ELSE <<from, Point(from.x, Half(RAdd(from.y, to.y))),
         Point(to.x, Half(RAdd(from.y, to.y))), to>>

\* cdef.fromEdge ?? (inferred, or the container border named)
edgeOf(given, target, center, other) ==
  IF given # Undefined THEN given
  ELSE IF IsNodeRef(target) THEN inferEdge(center, other)
  ELSE IF target.edge = "left" THEN "left" ELSE "right"

anchorOf(resolvedNodes, resolvedContainers, target, edge, center) ==
  IF IsNodeRef(target) THEN nodeEdge(resolvedNodes, target.id, edge)
  ELSE containerEdge(resolvedContainers, target.container, target.edge, center.y)

ResolvedConnection(cdef, points) ==
  [kind |-> "connection", def |-> cdef, id |-> getConnectionId(cdef),
   points |-> points, label |-> cdef.label]

\* Manual waypoints if provided, otherwise the auto-route.
routed(cdef, fromEdge, toEdge, fromPoint, toPoint) ==
  IF IsError(fromPoint) THEN fromPoint
  ELSE IF IsError(toPoint) THEN toPoint
  ELSE ResolvedConnection(cdef,
         IF cdef.waypoints # NoWaypoints
         THEN <<Point(fromPoint.x, fromPoint.y)>> \o cdef.waypoints
                \o <<Point(toPoint.x, toPoint.y)>>
         ELSE autoRoute(Point(fromPoint.x, fromPoint.y), fromEdge,
                        Point(toPoint.x, toPoint.y), toEdge))

anchored(resolvedNodes, resolvedContainers, cdef, fromCenter, toCenter, fromEdge, toEdge) ==
  routed(cdef, fromEdge, toEdge,
         anchorOf(resolvedNodes, resolvedContainers, cdef.from, fromEdge, fromCenter),
         anchorOf(resolvedNodes, resolvedContainers, cdef.to, toEdge, toCenter))

centred(resolvedNodes, resolvedContainers, cdef, fromCenter, toCenter) ==
  IF IsError(fromCenter) THEN fromCenter
  ELSE IF IsError(toCenter) THEN toCenter
  ELSE anchored(resolvedNodes, resolvedContainers, cdef, fromCenter, toCenter,
                edgeOf(cdef.fromEdge, cdef.from, fromCenter, toCenter),
                edgeOf(cdef.toEdge, cdef.to, toCenter, fromCenter))

\* One pass of the connection loop: the resolved connection, or the error raised.
resolveConnection(m, resolvedNodes, resolvedContainers, cdef) ==
  centred(resolvedNodes, resolvedContainers, cdef,
          getTargetCenter(m, resolvedNodes, resolvedContainers, cdef.from),
          getTargetCenter(m, resolvedNodes, resolvedContainers, cdef.to))

\* Variant: a connection that cannot be resolved is left out.
connectionsFromResolvable(each) ==
  [kind |-> "connections", list |-> SelectSeq(each, LAMBDA c : ~IsError(c))]

connectionsFrom(each) ==
  IF Failed(each) # {} THEN FirstFailure(each)
  ELSE [kind |-> "connections", list |-> each]

resolveConnections(m, resolvedNodes, resolvedContainers, connections) ==
  connectionsFrom(
    [i \in 1..Len(connections) |->
       resolveConnection(m, resolvedNodes, resolvedContainers, connections[i])])

ResolvedLayout(m, resolvedContainers, resolvedNodes, rc) ==
  IF IsError(rc) THEN rc
  ELSE [kind |-> "layout",
        nodes |-> resolvedNodes,
        containers |-> resolvedContainers,
        connections |-> rc.list,
        containerWidth |-> m.containerW,
        containerHeight |-> m.containerH,
        gridTop |-> m.gridTop,
        gridBottom |-> m.gridBottom,
        cellWidth |-> m.cellW,
        cellHeight |-> m.cellH]

layoutWithNodes(m, resolvedContainers, rn, connections) ==
  IF IsError(rn) THEN rn
  ELSE ResolvedLayout(m, resolvedContainers, rn.byId,
         resolveConnections(m, rn.byId, resolvedContainers, connections))

layoutWithContainers(m, resolvedContainers, nodes, connections) ==
  layoutWithNodes(m, resolvedContainers,
                  resolveNodes(m, resolvedContainers, nodes), connections)

layoutOn(m, nodes, containers, connections) ==
  layoutWithContainers(m, resolveContainers(m, containers), nodes, connections)

resolveLayout(grid, nodes, containers, connections) ==
  layoutOn(gridMetrics(grid), nodes, containers, connections)

-----------------------------------------------------------------------------
(* DiagramEngine: one render of the component at one frame *)

STATIC_ANIM == [brightness |-> Zero, drawProgress |-> One, opacity |-> One]

\* timelineState?.<map>[id] ?? STATIC_ANIM
animOr(ts, map, id) ==
  IF ts.kind = "state" /\ id \in DOMAIN map THEN map[id] ELSE STATIC_ANIM

viewOf(lay, ts) ==
  [kind |-> "rendered",
   globalOpacity |-> IF ts.kind = "state" THEN ts.globalOpacity ELSE One,
   containers |-> [id \in DOMAIN lay.containers |->
                     animOr(ts, IF ts.kind = "state" THEN ts.containers ELSE <<>>, id)],
   connections |-> [i \in 1..Len(lay.connections) |->
                      animOr(ts, IF ts.kind = "state" THEN ts.connections ELSE <<>>,
                             lay.connections[i].id)],
   nodes |-> [id \in DOMAIN lay.nodes |->
                animOr(ts, IF ts.kind = "state" THEN ts.nodes ELSE <<>>, id)],
   stepIndicator |-> ts.kind = "state" /\ RLt(Zero, ts.indicatorOpacity)
                       /\ ts.currentStep # NoCurrentStep]

-----------------------------------------------------------------------------
(* Configurations *)

MaxBookends == 3
MaxSteps == 2
MaxChildren == 4
MaxConnections == 1
FrameSlack == 2

Leaf(action, target, duration, step, group) ==
  [action |-> action, target |-> target, duration |-> duration,
   step |-> step, group |-> group, steps |-> <<>>]

HoldStep(duration) ==
  [action |-> "hold", target |-> Undefined, duration |-> duration,
   step |-> NoStepLabel, group |-> Undefined, steps |-> <<>>]

Parallel(steps, group) ==
  [action |-> "parallel", target |-> Undefined, duration |-> NoNumber,
   step |-> NoStepLabel, group |-> group, steps |-> steps]

PhaseOf(type, duration) == [type |-> type, duration |-> duration, steps |-> <<>>]
Sequence(steps) == [type |-> "sequence", duration |-> NoNumber, steps |-> steps]

Label(n) == [num |-> n, text |-> "step"]

\* All sequences over S of length at most n.
RECURSIVE SeqsUpTo(_, _)
SeqsUpTo(S, n) ==
  IF n = 0 THEN {<<>>}
  ELSE LET shorter == SeqsUpTo(S, n - 1)
       IN  shorter \cup {Append(s, x) : s \in shorter, x \in S}

NodeRef(id) == [kind |-> "node", id |-> id]
ContainerRef(id, edge) == [kind |-> "container", container |-> id, edge |-> edge]

NodeDef(id, row, col, container, innerCol, align) ==
  [id |-> id, position |-> [row |-> row, col |-> col], container |-> container,
   innerCol |-> innerCol, alignToInnerCol |-> align, widthCols |-> Null,
   heightRows |-> Null, boxHeightFrac |-> NoNumber]

ContainerDef(id, fromCol, toCol, cols) ==
  [id |-> id, span |-> [fromRow |-> 0, toRow |-> 0, fromCol |-> fromCol,
                        toCol |-> toCol],
   innerGrid |-> [cols |-> cols], insetFrac |-> NoNumber]

ConnectionDef(id, from, to) ==
  [id |-> id, from |-> from, to |-> to, fromEdge |-> Undefined,
   toEdge |-> Undefined, waypoints |-> NoWaypoints, label |-> Undefined]

GridOf(rows, cols) ==
  [rows |-> rows, cols |-> cols, canvas |-> NoCanvas, headerFrac |-> NoNumber,
   footerFrac |-> NoNumber, stepIndicatorFrac |-> NoNumber]

\* The diagram the timeline families animate: node A, node B inside
\* container K, the arrow A->B and an arrow from K's right border back to A.
BaseNodes ==
  <<NodeDef("A", 0, 0, Undefined, Null, NoAlign), NodeDef("B", 0, 1, "K", 0, NoAlign)>>
BaseContainers == <<ContainerDef("K", 1, 2, 2)>>
BaseConnections ==
  <<ConnectionDef(Undefined, NodeRef("A"), NodeRef("B")),
    ConnectionDef(Undefined, ContainerRef("K", "right"), NodeRef("A"))>>

ConfigOf(timeline) ==
  [grid |-> GridOf(1, 3), nodes |-> BaseNodes, containers |-> BaseContainers,
   connections |-> BaseConnections, timeline |-> timeline]

PhaseDuration == <<2, 5>>
Hold == PhaseOf("hold", PhaseDuration)
Dim == PhaseOf("dim", PhaseDuration)
Reveal == PhaseOf("reveal", PhaseDuration)
Bookends == {Hold, Dim, Reveal}

\* The walkthrough of the README: light A, draw the arrow, light B.
Walkthrough ==
  <<Leaf("fillBox", "A", NoNumber, Label(1), Undefined),
    Leaf("drawLine", "A->B", NoNumber, NoStepLabel, Undefined),
    Leaf("fillBox", "B", NoNumber, Label(2), Undefined)>>

\* Up to MaxBookends hold/dim/reveal phases in any order around one sequence.
BookendTimelines ==
  {b[1] \o <<Sequence(steps)>> \o b[2] :
     b \in {p \in SeqsUpTo(Bookends, MaxBookends)
                    \X SeqsUpTo(Bookends, MaxBookends) :
              Len(p[1]) + Len(p[2]) <= MaxBookends},
     steps \in {<<>>, Walkthrough}}

StepDurations == {NoNumber, Zero}
Groups == {Undefined, "g"}

Leaves ==
  {Leaf("fillBox", "A", d, Label(1), g) : d \in StepDurations, g \in Groups}
    \cup {Leaf("fillBox", "B", NoNumber, NoStepLabel, g) : g \in Groups}
    \cup {Leaf("drawLine", "A->B", NoNumber, NoStepLabel, g) : g \in Groups}
    \cup {Leaf("dimBox", "A", NoNumber, NoStepLabel, Undefined),
          Leaf("showContainer", "K", NoNumber, NoStepLabel, Undefined),
          HoldStep(PhaseDuration)}

\* Up to MaxSteps steps played one after another, bare or between the
\* bookends hold, dim ... reveal, hold.
StepTimelines ==
  {b[1] \o <<Sequence(steps)>> \o b[2] :
     b \in {<<(<<>>), (<<>>)>>, <<(<<Hold, Dim>>), (<<Reveal, Hold>>)>>},
     steps \in SeqsUpTo(Leaves, MaxSteps)}

ParallelLeaves ==
  {Leaf("fillBox", "A", NoNumber, Label(1), "g"),
   Leaf("drawLine", "A->B", NoNumber, NoStepLabel, "g"),
   Leaf("drawLine", "A->B", NoNumber, NoStepLabel, Undefined)}

\* One parallel step of up to MaxChildren children, alone or followed by a step.
ParallelTimelines ==
  {<<Sequence(<<Parallel(children, group)>> \o after)>> :
     children \in SeqsUpTo(ParallelLeaves, MaxChildren) \ {<<>>},
     group \in {Undefined, "h"},
     after \in {<<>>, <<Leaf("fillBox", "B", NoNumber, Label(2), Undefined)>>}}

\* A step of duration 0 early enough in a sequence to have a fade-out.
ZeroFadeTimelines ==
  {<<Sequence(<<Leaf("fillBox", "A", Zero, Label(1), Undefined),
                Leaf("drawLine", "A->B", NoNumber, NoStepLabel, Undefined),
                Leaf("fillBox", "B", NoNumber, Label(2), Undefined),
                Leaf("showContainer", "K", NoNumber, NoStepLabel, Undefined)>>)>>}

\* A parallel step nested in another, first or last among its siblings (a
\* hold and a longer fillBox B), between two steps of the sequence.
InnerParallel(group) ==
  Parallel(<<Leaf("fillBox", "A", NoNumber, Label(1), "own"),
             Leaf("drawLine", "A->B", NoNumber, NoStepLabel, Undefined)>>, group)

Siblings ==
  <<HoldStep(PhaseDuration), Leaf("fillBox", "B", <<6, 5>>, Label(2), Undefined)>>

NestedTimelines ==
  {<<Hold, Sequence(<<Leaf("drawLine", "A->B", NoNumber, NoStepLabel, Undefined),
                      Parallel(children, outer),
                      Leaf("showContainer", "K", NoNumber, NoStepLabel, Undefined)>>)>> :
     children \in {<<InnerParallel(inner)>> \o Siblings : inner \in {Undefined, "", "in"}}
                  \cup {Siblings \o <<InnerParallel(inner)>> : inner \in {Undefined, "", "in"}},
     outer \in {Undefined, "out"}}

Timelines ==
  {<<>>} \cup BookendTimelines \cup StepTimelines \cup ParallelTimelines
    \cup ZeroFadeTimelines \cup NestedTimelines

ScenarioTimelines ==
  {<<>>, <<Sequence(Walkthrough)>>,
   <<Hold, Dim, Sequence(Walkthrough), Reveal, Hold>>}

\* A reveal long enough for its ramp to pass below 1/100: 120 frames at 30 fps.
SlowReveal == PhaseOf("reveal", Num(4))

SlowRevealTimelines ==
  {<<Sequence(<<Leaf("fillBox", "A", NoNumber, Label(1), Undefined)>>), SlowReveal>>}

\* (timeline, frame rate): every timeline at 5 fps, the scenarios also as a
\* still (1 fps and below) and at 30 fps, the slow reveal at 30 fps.
Compositions ==
  (Timelines \X {Num(5)}) \cup (ScenarioTimelines \X {<<1, 2>>, One, Num(30)})
    \cup (SlowRevealTimelines \X {Num(30)})

\* The layouts: node A on the outer grid, node B placed in each of the ways
\* a NodeDef allows, and up to MaxConnections connections between known and
\* unknown endpoints.
PlacementsOfB ==
  {NodeDef("B", 0, 1, c, i, a) :
     c \in {Undefined, "K", "ghost"}, i \in {Null, 0},
     a \in {NoAlign, [containerId |-> "K", innerCol |-> 1],
            [containerId |-> "ghost", innerCol |-> 0]}}

Endpoints ==
  {NodeRef("A"), NodeRef("nowhere"),
   ContainerRef("K", "left"), ContainerRef("void", "right")}

ConnectionDefs ==
  {ConnectionDef(Undefined, from, to) : from \in Endpoints, to \in Endpoints}
    \cup {ConnectionDef(id, NodeRef("A"), ContainerRef("K", "left")) :
            id \in {"", "link"}}

LayoutConfigs ==
  {[grid |-> GridOf(1, 3),
    nodes |-> <<NodeDef("A", 0, 0, Undefined, Null, NoAlign), b>>,
    containers |-> BaseContainers,
    connections |-> cs,
    timeline |-> <<Hold>>] :
     b \in PlacementsOfB, cs \in SeqsUpTo(ConnectionDefs, MaxConnections)}

\* The routes: node A fixed, node B in every cell around it, on a grid of
\* wide cells (3 x 3) and on one of tall cells (2 x 6); the connection A->B
\* with each choice of edge overrides, or with waypoints supplied.
EdgeChoices == {Undefined, "left", "right", "top", "bottom"}

Detour == <<Point(Num(100), Num(200)), Point(Num(300), Num(200))>>

RouteDef(fromEdge, toEdge, waypoints) ==
  [ConnectionDef(Undefined, NodeRef("A"), NodeRef("B")) EXCEPT
     !.fromEdge = fromEdge, !.toEdge = toEdge, !.waypoints = waypoints]

RouteDefs ==
  {RouteDef(fe, te, NoWaypoints) : fe \in EdgeChoices, te \in EdgeChoices}
    \cup {RouteDef(Undefined, Undefined, w) : w \in {<<>>, Detour}}

RoutePlacements ==
  {<<GridOf(3, 3), NodeDef("A", 1, 1, Undefined, Null, NoAlign),
     NodeDef("B", r, c, Undefined, Null, NoAlign)>> : r \in 0..2, c \in 0..2}
    \cup {<<GridOf(2, 6), NodeDef("A", 0, 1, Undefined, Null, NoAlign),
            NodeDef("B", r, c, Undefined, Null, NoAlign)>> : r \in 0..1, c \in 0..2}

\* The 1 x 3 grid with nodes at columns 0, 1, 2 and the connection A->B.
RowOfThree ==
  [grid |-> GridOf(1, 3),
   nodes |-> <<NodeDef("A", 0, 0, Undefined, Null, NoAlign),
               NodeDef("B", 0, 1, Undefined, Null, NoAlign),
               NodeDef("C", 0, 2, Undefined, Null, NoAlign)>>,
   containers |-> <<>>,
   connections |-> <<ConnectionDef(Undefined, NodeRef("A"), NodeRef("B"))>>,
   timeline |-> <<Hold>>]

RouteConfigs ==
  {[grid |-> p[1], nodes |-> <<p[2], p[3]>>, containers |-> <<>>,
    connections |-> <<d>>, timeline |-> <<Hold>>] :
     p \in RoutePlacements, d \in RouteDefs} \cup {RowOfThree}

-----------------------------------------------------------------------------
(* The state machine *)

Unset == -1

\* The last frame rendered for a configuration.
LastFrame ==
  calculateTotalDuration(config.timeline, fps) + MathRound(RMul(Num(2), fps))
    + FrameSlack

Unrendered ==
  /\ durationInFrames = Unset
  /\ frame = 0
  /\ layout = NotRendered
  /\ tstate = NotRendered
  /\ view = NotRendered

Init ==
  /\ \E c \in Compositions : config = ConfigOf(c[1]) /\ fps = c[2]
  /\ Unrendered

InitLayout ==
  /\ config \in LayoutConfigs \cup RouteConfigs
  /\ fps = Num(5)
  /\ Unrendered

\* The composition is registered with the timeline's duration.
CalculateTotalDuration ==
  /\ durationInFrames = Unset
  /\ durationInFrames' = calculateTotalDuration(config.timeline, fps)
  /\ UNCHANGED <<config, fps, frame, layout, tstate, view>>

\* The hooks of one render at frame f: useGridLayout, then useTimeline (not
\* reached when the layout raised), then the props handed to the renderers.
Rendered(f, lay, ts) ==
  /\ frame' = f
  /\ layout' = lay
  /\ tstate' = IF IsError(lay) THEN tstate ELSE ts
  /\ view' = IF IsError(lay) \/ ts.kind = "thrown" THEN ThrownState
             ELSE viewOf(lay, ts)

\* useGridLayout: resolveLayout memoized on the (immutable) configuration.
useGridLayout ==
  IF layout.kind = "layout" THEN layout
  ELSE resolveLayout(config.grid, config.nodes, config.containers,
                     config.connections)

RenderAt(f) ==
  /\ f <= LastFrame
  /\ Rendered(f, useGridLayout,
              useTimeline(config.timeline, config.nodes, config.connections,
                          config.containers, f, fps))

\* DiagramEngine renders the next frame of the composition.
DiagramEngine ==
  /\ durationInFrames # Unset
  /\ RenderAt(IF view = NotRendered THEN 0 ELSE frame + 1)
  /\ UNCHANGED <<config, fps, durationInFrames>>

Next == CalculateTotalDuration \/ DiagramEngine

Spec == Init /\ [][Next]_vars

SpecLayout == InitLayout /\ [][Next]_vars

-----------------------------------------------------------------------------
(* Properties *)

\* The events and the animation events of the configuration being rendered.
Events == flattenTimeline(config.timeline, fps)
AnimEvents == animEventsOf(Events)

Evaluated == view # NotRendered /\ tstate.kind = "state"

IsHoldPhase(e) == e.action = "hold" /\ e.source = "phase"

\* The top-level hold phases the frame lies inside.
HoldsAt(events, f) ==
  {i \in 1..Len(events) :
     /\ IsHoldPhase(events[i])
     /\ events[i].startFrame <= f
     /\ f < EventEnd(events[i])}

FullyLit(s) == s.brightness = One /\ s.drawProgress = One

AllFullyLit(ts) ==
  /\ \A id \in DOMAIN ts.nodes : FullyLit(ts.nodes[id])
  /\ \A id \in DOMAIN ts.connections : FullyLit(ts.connections[id])
  /\ \A id \in DOMAIN ts.containers : FullyLit(ts.containers[id])

IsBookendHold(events, i) ==
  /\ IsHoldPhase(events[i])
  /\ \/ /\ FirstReveal(events) # 0
        /\ events[i].startFrame >= EventEnd(events[FirstReveal(events)])
     \/ /\ FirstDim(events) # 0
        /\ EventEnd(events[i]) <= EventEnd(events[FirstDim(events)])
     \/ /\ FirstDim(events) = 0
        /\ \A j \in 1..i : IsBookend(events[j])

BookendHoldsAt(events, f) ==
  {i \in HoldsAt(events, f) : IsBookendHold(events, i)}

\* The dimBox events on a node that have begun before frame f.
DimmedBy(animEvents, id, f) ==
  {i \in Matching(animEvents, "dimBox", id) : animEvents[i].startFrame < f}

NothingUndraws(before, after) ==
  /\ \A id \in DOMAIN before.nodes :
       RLe(before.nodes[id].drawProgress, after.nodes[id].drawProgress)
  /\ \A id \in DOMAIN before.connections :
       RLe(before.connections[id].drawProgress,
           after.connections[id].drawProgress)

ConsecutiveStates == tstate.kind = "state" /\ tstate'.kind = "state"

\* C2 as stated: from one query instant to the next, the drawProgress of
\* every node and every connection in the evaluator's output never decreases.
C2_NeverUndraws ==
  [][ConsecutiveStates => NothingUndraws(tstate, tstate')]_vars

\* C2 (amended): from one query instant to the next, the drawProgress of
\* every node and every connection never decreases unless the global floor
\* decreases between the two instants.
C2_NeverUndrawsUnderFloor ==
  [][(ConsecutiveStates /\ RLe(tstate.globalFloor, tstate'.globalFloor))
       => NothingUndraws(tstate, tstate')]_vars

\* Past the first frame with the floor at 0, a node is part-way through its
\* draw ramp.
C2_Witness ==
  /\ Evaluated
  /\ frame > 0
  /\ tstate.globalFloor = Zero
  /\ \E id \in DOMAIN tstate.nodes :
       /\ RLt(Zero, tstate.nodes[id].drawProgress)
       /\ RLt(tstate.nodes[id].drawProgress, One)

IsDrawn(e) == e.action = "fillBox" \/ e.action = "drawLine"

\* The fillBox/drawLine events of positive duration.
Ramping(animEvents) ==
  {i \in 1..Len(animEvents) :
     IsDrawn(animEvents[i]) /\ animEvents[i].durationFrames > 0}

\* The event's own ramp at f: 0 up to its start, 1 from its end, and not
\* lower one frame later.
RampsUp(evt, f) ==
  /\ f <= evt.startFrame => eventDrawProgress(evt, f) = Zero
  /\ f >= EventEnd(evt) => eventDrawProgress(evt, f) = One
  /\ RLe(Zero, eventDrawProgress(evt, f))
  /\ RLe(eventDrawProgress(evt, f), eventDrawProgress(evt, f + 1))
  /\ RLe(eventDrawProgress(evt, f + 1), One)

\* C3: the own draw ramp of every fillBox/drawLine event of duration d > 0
\* is 0 at instants <= s, non-decreasing over [s, s+d], and 1 at instants
\* >= s+d.
C3_MonotonicDraw ==
  view # NotRendered =>
    \A i \in Ramping(AnimEvents) : RampsUp(AnimEvents[i], frame)

\* The frame lies strictly inside an event's ramp, and past another's end.
C3_Witness ==
  /\ view # NotRendered
  /\ \E i \in Ramping(AnimEvents) :
       /\ AnimEvents[i].startFrame < frame
       /\ frame < EventEnd(AnimEvents[i])
       /\ RLt(Zero, eventDrawProgress(AnimEvents[i], frame))
       /\ RLt(eventDrawProgress(AnimEvents[i], frame), One)
  /\ \E j \in Ramping(AnimEvents) : frame > EventEnd(AnimEvents[j])

\* The fade-out start among the breakpoints of an event's envelope, after
\* the guard (Null: the envelope has no fade-out).
UsedFadeOutStart(range) == IF Len(range) = 4 THEN range[3] ELSE Null

FadeOutStartUsedBy(animEvents, i, rate) ==
  UsedFadeOutStart(envelopeRange(animEvents[i], i, animEvents,
                                 groupLatestTriggerFrame(animEvents), rate))

SameGroup(animEvents) ==
  {p \in (1..Len(animEvents)) \X (1..Len(animEvents)) :
     /\ p[1] < p[2]
     /\ HasGroup(animEvents[p[1]])
     /\ animEvents[p[1]].group = animEvents[p[2]].group}

\* C4: any two animation events with the same group key use the same
\* fade-out start as a breakpoint of their envelopes (or neither fades out).
C4_GroupSynchrony ==
  view # NotRendered =>
    \A p \in SameGroup(AnimEvents) :
      FadeOutStartUsedBy(AnimEvents, p[1], fps)
        = FadeOutStartUsedBy(AnimEvents, p[2], fps)

\* n is the greatest end of the events (0 when there are none).
IsLatestEnd(events, n) ==
  IF Len(events) = 0 THEN n = 0
  ELSE /\ \A i \in 1..Len(events) : EventEnd(events[i]) <= n
       /\ \E i \in 1..Len(events) : EventEnd(events[i]) = n

\* C5: the registered duration, calculateTotalDuration(timeline, fps), is the
\* maximum of startFrame + durationFrames over the flattened events (0 when
\* there are none) and is the evaluator's totalFrames.
C5_TotalDuration ==
  durationInFrames # Unset =>
    /\ IsLatestEnd(Events, durationInFrames)
    /\ totalFramesOf(Events) = durationInFrames

\* The duration is registered for a timeline whose last event is not the
\* last to end.
C5_Witness ==
  /\ durationInFrames # Unset
  /\ Len(Events) > 1
  /\ EventEnd(Events[Len(Events)]) < durationInFrames

\* An endpoint as the claim writes it.
EndpointText(target) ==
  IF target.kind = "node" THEN target.id
  ELSE "container:" \o target.container \o ":" \o target.edge

IdGiven(def) == def.id # Undefined /\ def.id # ""

ExpectedConnectionId(def) ==
  IF IdGiven(def) THEN def.id
  ELSE EndpointText(def.from) \o "->" \o EndpointText(def.to)

\* C6: a non-null evaluator state has a connection entry under exactly the
\* ids the layout resolver assigned (the explicit id, else "<from>-><to>"),
\* and a node and a container entry for every configured id.
C6_IdParity ==
  (Evaluated /\ layout.kind = "layout") =>
    /\ DOMAIN tstate.connections
         = {layout.connections[i].id : i \in 1..Len(layout.connections)}
    /\ \A i \in 1..Len(config.connections) :
         /\ layout.connections[i].id = ExpectedConnectionId(config.connections[i])
         /\ ExpectedConnectionId(config.connections[i]) \in DOMAIN tstate.connections
    /\ Ids(config.nodes) \subseteq DOMAIN tstate.nodes
    /\ Ids(config.containers) \subseteq DOMAIN tstate.containers

\* Evaluated with a connection that has an explicit id and a container endpoint.
C6_Witness ==
  /\ Evaluated
  /\ layout.kind = "layout"
  /\ \E i \in 1..Len(config.connections) :
       /\ IdGiven(config.connections[i])
       /\ config.connections[i].to.kind = "container"
       /\ config.connections[i].id \in DOMAIN tstate.connections

IsStill == Len(config.timeline) = 0 \/ RLe(fps, One)

Static(s) == s.opacity = One /\ s.drawProgress = One

\* C7: with zero phases or a frame rate <= 1 the evaluator returns null at
\* every frame, and every node, connection and container is rendered with
\* opacity 1 and drawProgress 1 under a global opacity of 1.
C7_StillMode ==
  (IsStill /\ view # NotRendered) =>
    /\ tstate = NullState
    /\ view.kind = "rendered"
    /\ view.globalOpacity = One
    /\ \A id \in DOMAIN view.nodes : Static(view.nodes[id])
    /\ \A i \in DOMAIN view.connections : Static(view.connections[i])
    /\ \A id \in DOMAIN view.containers : Static(view.containers[id])

\* A timeline with a dim phase rendered as a still, at a frame inside the dim.
C7_Witness ==
  /\ view # NotRendered
  /\ fps = One
  /\ \E i \in 1..Len(config.timeline) : config.timeline[i].type = "dim"
  /\ frame > 0
  /\ DOMAIN view.nodes # {}
  /\ DOMAIN view.connections # {}

\* The ungrouped fillBox/showContainer/drawLine events.
Ungrouped(animEvents) ==
  {i \in 1..Len(animEvents) :
     /\ ~HasGroup(animEvents[i])
     /\ animEvents[i].action \in {"fillBox", "showContainer", "drawLine"}}

LookaheadPosition(animEvents, i) ==
  i + (IF animEvents[i].action = "drawLine" THEN 2 ELSE 3)

EnvelopeAt(animEvents, i, rate, f) ==
  eventEnvelope(animEvents[i], i, animEvents,
                groupLatestTriggerFrame(animEvents), rate, f)

\* The envelope is a value at f that is not lower one frame later and is 1
\* from the event's end on.
NeverFadesAt(animEvents, i, rate, f) ==
  /\ IsNum(EnvelopeAt(animEvents, i, rate, f))
  /\ IsNum(EnvelopeAt(animEvents, i, rate, f + 1))
  /\ RLe(EnvelopeAt(animEvents, i, rate, f), EnvelopeAt(animEvents, i, rate, f + 1))
  /\ f >= EventEnd(animEvents[i]) => EnvelopeAt(animEvents, i, rate, f) = One

FollowsLookahead(animEvents, i, rate, f) ==
  IF LookaheadPosition(animEvents, i) <= Len(animEvents)
  THEN fadeOutStartOf(animEvents[i], i, animEvents,
                      groupLatestTriggerFrame(animEvents))
         = EventEnd(animEvents[LookaheadPosition(animEvents, i)])
  ELSE NeverFadesAt(animEvents, i, rate, f)

\* C8: the fade-out trigger of an ungrouped event at position i of the
\* animation events is the end of the event at position i+3 (i+2 for a
\* drawLine); without such an event its envelope never decreases and is 1 at
\* every instant at or after the event's end.
C8_LookaheadFadeOut ==
  (view # NotRendered /\ ~IsStill) =>
    \A i \in Ungrouped(AnimEvents) : FollowsLookahead(AnimEvents, i, fps, frame)

Resolved == layout # NotRendered

\* The node ids and container ids that connection endpoints name but the
\* configuration does not define.
MissingEndpointNodes ==
  {t.id : t \in {e \in {config.connections[i].from : i \in 1..Len(config.connections)}
                        \cup {config.connections[i].to : i \in 1..Len(config.connections)} :
                   e.kind = "node" /\ e.id \notin Ids(config.nodes)}}

MissingEndpointContainers ==
  {t.container :
     t \in {e \in {config.connections[i].from : i \in 1..Len(config.connections)}
                 \cup {config.connections[i].to : i \in 1..Len(config.connections)} :
              e.kind = "container" /\ e.container \notin Ids(config.containers)}}

MissingEndpointMessages ==
  {NodeNotFound(id) : id \in MissingEndpointNodes}
    \cup {ContainerNotFound(id) : id \in MissingEndpointContainers}

\* The container ids that nodes name but the configuration does not define.
MissingNodeContainers ==
  {c \in {config.nodes[i].container : i \in 1..Len(config.nodes)}
           \cup {config.nodes[i].alignToInnerCol.containerId :
                   i \in 1..Len(config.nodes)} :
     c # Undefined /\ c \notin Ids(config.containers)}

\* C9: when a connection endpoint names a node or container that is not
\* configured, layout resolution raises an error naming a missing id (one of
\* the endpoints' when the nodes name no missing container) and nothing is
\* laid out or rendered.
C9_UnknownEndpointFatal ==
  (Resolved /\ MissingEndpointMessages # {}) =>
    /\ layout.kind = "error"
    /\ layout.message \in MissingEndpointMessages
                            \cup {ContainerNotFound(c) : c \in MissingNodeContainers}
    /\ MissingNodeContainers = {} => layout.message \in MissingEndpointMessages
    /\ view = ThrownState

\* Resolved with sound nodes and a connection from a known node to an
\* unknown container.
C9_Witness ==
  /\ Resolved
  /\ MissingNodeContainers = {}
  /\ MissingEndpointNodes = {}
  /\ MissingEndpointContainers # {}
  /\ \E i \in 1..Len(config.connections) :
       /\ config.connections[i].from = NodeRef("A")
       /\ config.connections[i].to.kind = "container"

\* C10: when a node's container field or alignToInnerCol.containerId names a
\* container that is not configured, layout resolution raises an error
\* naming that container.
C10_UnknownContainerFatal ==
  (Resolved /\ MissingNodeContainers # {}) =>
    /\ layout.kind = "error"
    /\ layout.message \in {ContainerNotFound(c) : c \in MissingNodeContainers}

\* C11: for a non-empty timeline at a frame rate above 1 the evaluator
\* returns a full state at every frame; no interpolate call raises.
C11_NeverRaises ==
  (view # NotRendered /\ ~IsStill) => tstate.kind = "state"

HasDim == FirstDim(Events) # 0
HasReveal == FirstReveal(Events) # 0
DimStart == Events[FirstDim(Events)].startFrame
DimEnd == EventEnd(Events[FirstDim(Events)])
RevealStart == Events[FirstReveal(Events)].startFrame
RevealEnd == EventEnd(Events[FirstReveal(Events)])

\* The reveal phases that come after the first dim phase.
RevealsAfterDim ==
  {i \in WithAction(Events, "reveal") : i > FirstDim(Events)}

DimIsFollowed == FirstDim(Events) < Len(Events)
AfterDimStart == Events[FirstDim(Events) + 1].startFrame

\* The linear ramp from 1 at the start of the dim phase to 0 at its end.
DimRamp(f) == RSub(One, RDiv(Num(f - DimStart), Num(DimEnd - DimStart)))

\* C13: globalOpacity is 1 before the dim phase starts, ramps linearly from 1
\* toward 0 across it, and is 1 from the start of the first event that
\* follows the dim phase; so it is below 1 only inside the dim phase when
\* some event follows it.
C13_DimOpacity ==
  (Evaluated /\ HasDim) =>
    /\ view.globalOpacity = tstate.globalOpacity
    /\ frame <= DimStart => tstate.globalOpacity = One
    /\ (DimStart <= frame /\ frame < DimEnd)
         => tstate.globalOpacity = DimRamp(frame)
    /\ (DimIsFollowed /\ frame >= AfterDimStart) => tstate.globalOpacity = One
    /\ (DimIsFollowed /\ RLt(tstate.globalOpacity, One))
         => (DimStart < frame /\ frame < DimEnd)

\* The first event that is not a top-level hold/dim/reveal phase (0: none).
FirstContent == FindFirst(Events, {i \in 1..Len(Events) : ~IsBookend(Events[i])})
HasContent == FirstContent # 0
ContentStart == Events[FirstContent].startFrame
RevealLeads == HasReveal /\ FirstReveal(Events) < FirstContent

RevealRamp(i, f) ==
  Interpolate(f, <<Events[i].startFrame, EventEnd(Events[i])>>, <<0, 1>>)

InsideReveal(i, f) == Events[i].startFrame <= f /\ f < EventEnd(Events[i])

\* The floor a state reports at frame f, against every reveal phase.
RevealFloorAt(ts, f) ==
  ts.kind = "state" =>
    \A i \in WithAction(Events, "reveal") :
      /\ InsideReveal(i, f) => RLe(RevealRamp(i, f), ts.globalFloor)
      /\ f >= EventEnd(Events[i]) => ts.globalFloor = One

\* Two consecutive query instants within one reveal phase, its end included.
AcrossReveal ==
  /\ ConsecutiveStates
  /\ \E i \in WithAction(Events, "reveal") :
       Events[i].startFrame <= frame /\ frame' <= EventEnd(Events[i])

\* C15: globalFloor is at least the linear 0 -> 1 ramp at every instant
\* inside a reveal phase, never decreases across the reveal phase, and is 1
\* at every instant at or after the reveal phase's end.
C15_RevealFloor ==
  [][/\ RevealFloorAt(tstate', frame')
     /\ AcrossReveal => RLe(tstate.globalFloor, tstate'.globalFloor)]_vars

\* Inside the reveal ramp with the floor strictly between 0 and 1.
C15_Witness ==
  /\ Evaluated /\ HasReveal
  /\ RevealStart < frame /\ frame < RevealEnd
  /\ tstate.globalFloor = RevealRamp(FirstReveal(Events), frame)
  /\ RLt(Zero, tstate.globalFloor) /\ RLt(tstate.globalFloor, One)

ConnectionIds == Range(connIdsOf(config.connections))

HasAnimEvents == Len(AnimEvents) > 0

\* The end of the last animation event plus round(2 * fps) frames.
SettledFrom ==
  EventEnd(AnimEvents[Len(AnimEvents)]) + MathRound(RMul(Num(2), fps))

SettleRampStart == SettledFrom - MathRound(RMul(<<2, 5>>, fps))

\* The state of a connection when the settlement ramp contributes nothing.
Unsettled(id) ==
  connStateFrom(
    maxBrightOf(AnimEvents, groupLatestTriggerFrame(AnimEvents), "drawLine",
                id, fps, frame),
    maxDrawOf(AnimEvents, "drawLine", id, frame), Zero, tstate.globalFloor)

FullyConnected ==
  \A id \in ConnectionIds :
    /\ tstate.connections[id].brightness = One
    /\ tstate.connections[id].drawProgress = One

NeverDrawn(id) == \A i \in 1..Len(AnimEvents) : AnimEvents[i].target # id

\* C16: with flowEnd the end of the last animation event plus round(2*fps)
\* frames, at every instant >= flowEnd every configured connection has
\* brightness 1 and drawProgress 1, also one no drawLine step targets; before
\* flowEnd - round(0.4*fps) the settlement ramp contributes 0.
C16_ConnectionSettlement ==
  (Evaluated /\ HasAnimEvents) =>
    /\ DOMAIN tstate.connections = ConnectionIds
    /\ frame >= SettledFrom => FullyConnected
    /\ frame < SettleRampStart
         => \A id \in ConnectionIds : tstate.connections[id] = Unsettled(id)

\* Past flowEnd with the floor at 0: a connection no step draws is settled.
C16_Witness ==
  /\ Evaluated /\ HasAnimEvents
  /\ frame >= SettledFrom
  /\ tstate.globalFloor = Zero
  /\ \E id \in ConnectionIds :
       NeverDrawn(id) /\ tstate.connections[id].drawProgress = One

\* The query instant is the end of the rendered timeline.
AtTotalDuration ==
  /\ Evaluated
  /\ Len(config.timeline) > 0
  /\ frame = calculateTotalDuration(config.timeline, fps)

\* C17: for every non-empty timeline, at the instant equal to the total
\* duration every configured connection has drawProgress 1 and brightness 1,
\* the settlement instant never falling after the end of the timeline.
C17_EndsFullyConnected ==
  AtTotalDuration =>
    /\ FullyConnected
    /\ HasAnimEvents => SettledFrom <= frame

\* The envelope of the showContainer events that target container id.
ContainerEnvelope(id) ==
  maxBrightOf(AnimEvents, groupLatestTriggerFrame(AnimEvents), "showContainer",
              id, fps, frame)

\* The brightness of the nodes whose container field is id.
MemberBrightness(id) ==
  {tstate.nodes[config.nodes[k].id].brightness :
     k \in {j \in 1..Len(config.nodes) : config.nodes[j].container = id}}

\* What lights a container: its members, its own envelope, the global floor.
Lighting(id) ==
  MemberBrightness(id) \cup {ContainerEnvelope(id), tstate.globalFloor}

IsMaximumOf(b, S) == b \in S /\ \A x \in S : RLe(x, b)

\* C18: at every query instant the brightness of every container is at
\* least the brightness of each of its member nodes, its own showContainer
\* envelope and globalFloor, and equals the maximum of them; its
\* drawProgress is always 1.
C18_ContainersWake ==
  Evaluated =>
    \A k \in 1..Len(config.containers) :
      /\ IsMaximumOf(tstate.containers[config.containers[k].id].brightness,
                     Lighting(config.containers[k].id))
      /\ tstate.containers[config.containers[k].id].drawProgress = One

\* A container lit by a member node alone: no event of its own, floor 0.
C18_Witness ==
  /\ Evaluated
  /\ tstate.globalFloor = Zero
  /\ \E k \in 1..Len(config.containers) :
       /\ ContainerEnvelope(config.containers[k].id) = Zero
       /\ RLt(Zero, tstate.containers[config.containers[k].id].brightness)
       /\ MemberBrightness(config.containers[k].id) # {}

\* The animation events that carry a step label, and those that have started.
Labelled == {i \in 1..Len(AnimEvents) : AnimEvents[i].step # NoStepLabel}
LabelledStarted == {i \in Labelled : AnimEvents[i].startFrame <= frame}

\* The linear 0 -> 1 ramp of an event over [start, start + duration].
LinearRamp(evt, f) ==
  IF f <= evt.startFrame THEN Zero
  ELSE IF f >= EventEnd(evt) THEN One
  ELSE RDiv(Num(f - evt.startFrame), Num(evt.durationFrames))

StepReported == tstate.currentStep # NoCurrentStep

ReportsStepOf(k) ==
  /\ tstate.currentStep.num = AnimEvents[k].step.num
  /\ tstate.currentStep.text = AnimEvents[k].step.text
  /\ tstate.currentStep.progress = LinearRamp(AnimEvents[k], frame)

\* C19: a reported currentStep is the label of the last event, in flattened
\* order, among the step-labelled animation events that have started, with
\* that event's own linear 0 -> 1 ramp as progress; totalSteps is the number
\* of step-labelled animation events.
C19_StepIndicatorLabel ==
  Evaluated =>
    /\ tstate.totalSteps = Cardinality(Labelled)
    /\ StepReported =>
         \E k \in LabelledStarted :
           (\A j \in LabelledStarted : j <= k) /\ ReportsStepOf(k)

\* The second label is reported, half-way through its event, after the first.
C19_Witness ==
  /\ Evaluated /\ StepReported
  /\ \E j \in LabelledStarted :
       AnimEvents[j].step.num # tstate.currentStep.num
  /\ RLt(Zero, tstate.currentStep.progress)
  /\ RLt(tstate.currentStep.progress, One)

\* The instant the step indicator has faded out by, and its fade-out window.
IndicatorEnd == flowEndOf(AnimEvents, totalFramesOf(Events), fps)
IndicatorWindow == 2 * MathRound(RMul(<<2, 5>>, fps))

\* The linear 1 -> 0 fall over the window that ends at IndicatorEnd.
IndicatorFall ==
  IF frame <= IndicatorEnd - IndicatorWindow THEN One
  ELSE RDiv(Num(IndicatorEnd - frame), Num(IndicatorWindow))

IndicatorHidden ==
  /\ tstate.indicatorOpacity = Zero
  /\ ~StepReported
  /\ ~view.stepIndicator

\* C20: at every instant where globalFloor > 0, an instant inside a reveal
\* ramp included, indicatorOpacity is 0 and no currentStep is reported;
\* indicatorOpacity is also 0 at every instant >= flowEnd, and otherwise
\* falls linearly 1 -> 0 over the 2*round(0.4*fps) frames ending at flowEnd.
C20_IndicatorSuppression ==
  Evaluated =>
    /\ RLt(Zero, tstate.globalFloor) => IndicatorHidden
    /\ frame >= IndicatorEnd => tstate.indicatorOpacity = Zero
    /\ (tstate.globalFloor = Zero /\ frame < IndicatorEnd)
         => tstate.indicatorOpacity = IndicatorFall

InUnit(x) == IsNum(x) /\ RLe(Zero, x) /\ RLe(x, One)

\* An element state within range, its opacity derived with the dim floor.
InRange(st, dimFloor) ==
  /\ InUnit(st.brightness)
  /\ InUnit(st.drawProgress)
  /\ st.opacity = RAdd(dimFloor, RMul(RSub(One, dimFloor), st.brightness))
  /\ RLe(dimFloor, st.opacity) /\ RLe(st.opacity, One)

\* C21: in every state the evaluator returns, brightness and drawProgress of
\* every element lie in [0,1], opacity is dimFloor + (1 - dimFloor) *
\* brightness with dimFloor 0.3 for nodes, 0.15 for connections and 0.3 for
\* containers, and globalFloor, globalOpacity and indicatorOpacity lie in
\* [0,1].
C21_OutputRanges ==
  Evaluated =>
    /\ \A id \in DOMAIN tstate.nodes : InRange(tstate.nodes[id], <<3, 10>>)
    /\ \A id \in DOMAIN tstate.connections :
         InRange(tstate.connections[id], <<3, 20>>)
    /\ \A id \in DOMAIN tstate.containers :
         InRange(tstate.containers[id], <<3, 10>>)
    /\ InUnit(tstate.globalFloor)
    /\ InUnit(tstate.globalOpacity)
    /\ InUnit(tstate.indicatorOpacity)

\* A node fully dimmed by a dimBox that has ended while another element is
\* part-way through its ramp.
C21_Witness ==
  /\ Evaluated
  /\ \E i \in 1..Len(AnimEvents) :
       /\ AnimEvents[i].action = "dimBox"
       /\ frame >= EventEnd(AnimEvents[i])
       /\ tstate.nodes[AnimEvents[i].target].brightness = Zero
  /\ \E id \in DOMAIN tstate.nodes :
       /\ RLt(Zero, tstate.nodes[id].brightness)
       /\ RLt(tstate.nodes[id].brightness, One)

LaidOut == layout.kind = "layout"

NodeToNode(c) == c.def.from.kind = "node" /\ c.def.to.kind = "node"
NoEdgeGiven(c) == c.def.fromEdge = Undefined /\ c.def.toEdge = Undefined

\* The deltas between the resolved centers of a connection's two nodes.
DeltaX(c) ==
  RSub(layout.nodes[c.def.to.id].center.x, layout.nodes[c.def.from.id].center.x)
DeltaY(c) ==
  RSub(layout.nodes[c.def.to.id].center.y, layout.nodes[c.def.from.id].center.y)

DistinctCenters(c) == DeltaX(c) # Zero \/ DeltaY(c) # Zero

\* The edge by the sign of the dominant delta.
EdgeToward(dx, dy) ==
  IF RLt(RAbs(dy), RAbs(dx))
  THEN (IF RLt(Zero, dx) THEN "right" ELSE "left")
  ELSE (IF RLt(Zero, dy) THEN "bottom" ELSE "top")

ExitEdge(c) == EdgeToward(DeltaX(c), DeltaY(c))
EntryEdge(c) == EdgeToward(RNeg(DeltaX(c)), RNeg(DeltaY(c)))

Opposite(edge) ==
  CASE edge = "right" -> "left"
    [] edge = "left" -> "right"
    [] edge = "top" -> "bottom"
    [] edge = "bottom" -> "top"

\* The middle of an edge of a resolved node.
AnchorOn(n, edge) ==
  CASE edge = "right" -> Point(RAdd(n.center.x, RDiv(n.width, Num(2))), n.center.y)
    [] edge = "left" -> Point(RSub(n.center.x, RDiv(n.width, Num(2))), n.center.y)
    [] edge = "top" -> Point(n.center.x, RSub(n.center.y, RDiv(n.height, Num(2))))
    [] edge = "bottom" -> Point(n.center.x, RAdd(n.center.y, RDiv(n.height, Num(2))))

LeavesAndEnters(c, exit, entry) ==
  /\ c.points[1] = AnchorOn(layout.nodes[c.def.from.id], exit)
  /\ c.points[Len(c.points)] = AnchorOn(layout.nodes[c.def.to.id], entry)

\* C22: a node-to-node connection without edge overrides leaves by right/left
\* by the sign of dx when |dx| > |dy| between the resolved centers, by
\* bottom/top by the sign of dy otherwise, and enters by the edge inferred
\* from the reversed direction, which for distinct centers is the opposite
\* edge; on the 1 x 3 grid with nodes at columns 0, 1, 2 the connection
\* node0 -> node1 is the straight 2-point line from right edge to left edge.
C22_EdgeInference ==
  LaidOut =>
    /\ \A i \in 1..Len(layout.connections) :
         (/\ NodeToNode(layout.connections[i])
          /\ NoEdgeGiven(layout.connections[i])
          /\ DistinctCenters(layout.connections[i]))
           => /\ LeavesAndEnters(layout.connections[i],
                                 ExitEdge(layout.connections[i]),
                                 EntryEdge(layout.connections[i]))
              /\ EntryEdge(layout.connections[i])
                   = Opposite(ExitEdge(layout.connections[i]))
    /\ config = RowOfThree
         => layout.connections[1].points
              = <<AnchorOn(layout.nodes["A"], "right"),
                  AnchorOn(layout.nodes["B"], "left")>>

\* A diagonal connection on the grid of tall cells: it leaves by the bottom.
C22_Witness ==
  /\ LaidOut
  /\ \E i \in 1..Len(layout.connections) :
       /\ NodeToNode(layout.connections[i])
       /\ NoEdgeGiven(layout.connections[i])
       /\ DeltaX(layout.connections[i]) # Zero
       /\ DeltaY(layout.connections[i]) # Zero
       /\ ExitEdge(layout.connections[i]) = "bottom"
       /\ layout.connections[i].points[1]
            = AnchorOn(layout.nodes["A"], "bottom")

\* The breakpoints handed to interpolate for the envelope of event i.
Breakpoints(i) ==
  envelopeRange(AnimEvents[i], i, AnimEvents,
                groupLatestTriggerFrame(AnimEvents), fps)

\* The trigger of event i before the guard (Null: no fade-out).
TriggerOf(i) ==
  fadeOutStartOf(AnimEvents[i], i, AnimEvents, groupLatestTriggerFrame(AnimEvents))

FadesOut == {i \in 1..Len(AnimEvents) : TriggerOf(i) # Null}

Increasing(range) == \A k \in 1..(Len(range) - 1) : range[k] < range[k + 1]

\* start, start + duration, fadeOutStart, fadeOutStart + round(0.4 * fps)
FourBreakpoints(range, evt) ==
  /\ Len(range) = 4
  /\ range[1] = evt.startFrame
  /\ range[2] = evt.startFrame + evt.durationFrames
  /\ range[4] = range[3] + MathRound(RMul(<<2, 5>>, fps))

Guarded(range, trigger) ==
  /\ trigger <= range[2] => range[3] = range[2] + 1
  /\ trigger > range[2] => range[3] = trigger

\* C23: for every animation event that has a fade-out, the four envelope
\* breakpoints start, start + duration, fadeOutStart, fadeOutStart +
\* round(0.4*fps) are strictly increasing at every frame rate above 1, a
\* trigger at or before start + duration being replaced by start+duration+1.
C23_BreakpointsIncrease ==
  (view # NotRendered /\ ~IsStill) =>
    \A i \in FadesOut :
      /\ FourBreakpoints(Breakpoints(i), AnimEvents[i])
      /\ Guarded(Breakpoints(i), TriggerOf(i))
      /\ Increasing(Breakpoints(i))

\* The number of events a step flattens to.
RECURSIVE LeafCount(_)
RECURSIVE LeafCountOf(_)
LeafCountOf(steps) ==
  IF steps = <<>> THEN 0 ELSE LeafCount(Head(steps)) + LeafCountOf(Tail(steps))

LeafCount(step) ==
  IF step.action = "parallel" THEN LeafCountOf(step.steps) ELSE 1

\* The total duration of a step whose first event is events[first]: its own
\* event's duration, for a parallel the maximum over its children.
RECURSIVE SpanAt(_, _, _)
RECURSIVE LongestAt(_, _, _)
LongestAt(steps, first, events) ==
  IF steps = <<>> THEN 0
  ELSE IF SpanAt(Head(steps), first, events)
            > LongestAt(Tail(steps), first + LeafCount(Head(steps)), events)
  THEN SpanAt(Head(steps), first, events)
  ELSE LongestAt(Tail(steps), first + LeafCount(Head(steps)), events)

SpanAt(step, first, events) ==
  IF step.action = "parallel" THEN LongestAt(step.steps, first, events)
  ELSE events[first].durationFrames

\* The parallel steps of the timeline, nested ones included: where its
\* events lie in the flattened list, the instant it starts, its duration.
ParallelAt(step, first, start, nested, events) ==
  [first |-> first, count |-> LeafCount(step), start |-> start,
   span |-> SpanAt(step, first, events), nested |-> nested, group |-> step.group]

RECURSIVE ParallelsIn(_, _, _, _, _)
RECURSIVE ParallelsAmong(_, _, _, _)
ParallelsAmong(children, first, start, events) ==
  IF children = <<>> THEN {}
  ELSE ParallelsIn(Head(children), first, start, TRUE, events)
         \cup ParallelsAmong(Tail(children), first + LeafCount(Head(children)),
                             start, events)

ParallelsIn(step, first, start, nested, events) ==
  IF step.action # "parallel" THEN {}
  ELSE {ParallelAt(step, first, start, nested, events)}
         \cup ParallelsAmong(step.steps, first, start, events)

\* Steps of a sequence follow one another.
RECURSIVE ParallelsOfSteps(_, _, _, _)
ParallelsOfSteps(steps, first, cursor, events) ==
  IF steps = <<>> THEN {}
  ELSE ParallelsIn(Head(steps), first, cursor, FALSE, events)
         \cup ParallelsOfSteps(Tail(steps), first + LeafCount(Head(steps)),
                               cursor + SpanAt(Head(steps), first, events), events)

RECURSIVE SpanOfSteps(_, _, _)
SpanOfSteps(steps, first, events) ==
  IF steps = <<>> THEN 0
  ELSE SpanAt(Head(steps), first, events)
         + SpanOfSteps(Tail(steps), first + LeafCount(Head(steps)), events)

RECURSIVE ParallelsOfPhases(_, _, _, _)
ParallelsOfPhases(phases, first, cursor, events) ==
  IF phases = <<>> THEN {}
  ELSE IF Head(phases).type = "sequence"
  THEN ParallelsOfSteps(Head(phases).steps, first, cursor, events)
         \cup ParallelsOfPhases(Tail(phases),
                                first + LeafCountOf(Head(phases).steps),
                                cursor + SpanOfSteps(Head(phases).steps, first, events),
                                events)
  ELSE ParallelsOfPhases(Tail(phases), first + 1,
                         cursor + events[first].durationFrames, events)

ParallelStepsOf(events) == ParallelsOfPhases(config.timeline, 1, 0, events)

ParallelSteps == ParallelStepsOf(Events)

StartTogether(p, events) ==
  \A i \in p.first..(p.first + p.count - 1) : events[i].startFrame = p.start

IsFollowed(p, events) == p.first + p.count <= Len(events)

FollowedAfterLongest(p, events) ==
  IsFollowed(p, events)
    => events[p.first + p.count].startFrame = p.start + p.span

ParallelsFlattened(events, parallels) ==
  \A p \in parallels : StartTogether(p, events) /\ FollowedAfterLongest(p, events)

TopLevelParallelsFlattened(events, parallels) ==
  \A p \in parallels :
    StartTogether(p, events) /\ (~p.nested => FollowedAfterLongest(p, events))

\* C24: every leaf event produced from the children of a parallel step,
\* nested parallels included, starts at the instant the parallel step starts,
\* and the first event flattened after the parallel starts at that instant
\* plus the maximum over the children of the child's total duration.
C24_ParallelFlattening ==
  view # NotRendered => ParallelsFlattened(Events, ParallelSteps)

\* C24 as the code has it: the event that follows a nested parallel is a
\* sibling or a successor of the enclosing parallel, so the second part holds
\* for the parallel steps that are not nested in another.
C24_TopLevelParallelFlattening ==
  view # NotRendered => TopLevelParallelsFlattened(Events, ParallelSteps)

NestedAndFollowed(events, parallels) ==
  \E p \in parallels :
    /\ ~p.nested /\ p.start > 0 /\ p.count >= 4 /\ IsFollowed(p, events)
    /\ events[p.first + p.count - 1].durationFrames < p.span
    /\ \E q \in parallels : q.nested /\ q.first >= p.first
    /\ events[p.first + p.count].startFrame = p.start + p.span

\* A parallel with a nested parallel, started after time 0, whose last child
\* is not its longest, followed by a step.
C24_Witness == view # NotRendered /\ NestedAndFollowed(Events, ParallelSteps)

\* Events i and j come from children of one parallel step.
ParallelSiblings(i, j, parallels) ==
  \E p \in parallels :
    /\ p.first <= i /\ i < p.first + p.count
    /\ p.first <= j /\ j < p.first + p.count

EventPairs(events) == {q \in (1..Len(events)) \X (1..Len(events)) : q[1] < q[2]}

TimeOrdered(events, parallels) ==
  \A q \in EventPairs(events) :
    /\ events[q[1]].startFrame <= events[q[2]].startFrame
    /\ ~ParallelSiblings(q[1], q[2], parallels)
         => EventEnd(events[q[1]]) <= events[q[2]].startFrame

\* C25: start instants are non-decreasing along the flattened event list,
\* and an event flattened from a phase or step that comes after another one
\* that is not its sibling in a parallel starts no earlier than the earlier
\* one's end.
C25_TimeOrdered == view # NotRendered => TimeOrdered(Events, ParallelSteps)

OverlapThenWait(events, parallels) ==
  \E q \in EventPairs(events) :
    /\ ParallelSiblings(q[1], q[2], parallels)
    /\ events[q[2]].startFrame < EventEnd(events[q[1]])
    /\ \E k \in (q[2] + 1)..Len(events) :
         /\ ~ParallelSiblings(q[1], k, parallels)
         /\ EventEnd(events[q[1]]) <= events[k].startFrame

\* Two children of a parallel overlap, and a later step waits for both.
C25_Witness == view # NotRendered /\ OverlapThenWait(Events, ParallelSteps)

\* The group each event of a step carries: its own if the step specifies
\* one, else the one handed down by the nearest enclosing parallel that
\* specifies one; a hold carries none.
Specified(group, inherited) == IF group # Undefined THEN group ELSE inherited

RECURSIVE GroupsOfStep(_, _)
RECURSIVE GroupsOfSteps(_, _)
GroupsOfSteps(steps, inherited) ==
  IF steps = <<>> THEN <<>>
  ELSE GroupsOfStep(Head(steps), inherited) \o GroupsOfSteps(Tail(steps), inherited)

GroupsOfStep(step, inherited) ==
  IF step.action = "hold" THEN <<Undefined>>
  ELSE IF step.action = "parallel"
  THEN GroupsOfSteps(step.steps, Specified(step.group, inherited))
  ELSE <<Specified(step.group, inherited)>>

RECURSIVE GroupsOfPhases(_)
GroupsOfPhases(phases) ==
  IF phases = <<>> THEN <<>>
  ELSE (IF Head(phases).type = "sequence"
        THEN GroupsOfSteps(Head(phases).steps, Undefined) ELSE <<Undefined>>)
         \o GroupsOfPhases(Tail(phases))

InsideParallel(i, parallels) ==
  \E p \in parallels : p.first <= i /\ i < p.first + p.count

GroupsInherited(events, groups, parallels) ==
  /\ Len(groups) = Len(events)
  /\ \A i \in 1..Len(events) :
       /\ InsideParallel(i, parallels) => events[i].group = groups[i]
       /\ events[i].action = "hold" => events[i].group = Undefined

\* C26: every leaf event flattened from inside a parallel step carries its
\* own group if the step specifies one, otherwise the group of the nearest
\* enclosing parallel that specifies one, through any depth of nesting,
\* otherwise no group; hold events never carry a group.
C26_GroupInheritance ==
  view # NotRendered
    => GroupsInherited(Events, GroupsOfPhases(config.timeline), ParallelSteps)

InheritsThroughNesting(events, parallels) ==
  \E q \in parallels :
    /\ q.nested /\ q.group = Undefined
    /\ \E i \in q.first..(q.first + q.count - 1) : events[i].group = "out"
    /\ \E i \in q.first..(q.first + q.count - 1) : events[i].group = "own"
    /\ \E p \in parallels :
         /\ ~p.nested
         /\ \E i \in p.first..(p.first + p.count - 1) :
              events[i].action = "hold" /\ events[i].group = Undefined

\* In a nested parallel without a group one event carries the outer
\* parallel's group, one its own, and a sibling hold none.
C26_Witness == view # NotRendered /\ InheritsThroughNesting(Events, ParallelSteps)

\* The group keys of the animation events and the members of a group.
GroupKeys(animEvents) ==
  {animEvents[i].group : i \in {j \in 1..Len(animEvents) : HasGroup(animEvents[j])}}

MembersOf(animEvents, g) == {i \in 1..Len(animEvents) : animEvents[i].group = g}

\* The lookahead trigger of member i on its own (Null: no lookahead target).
OwnTrigger(animEvents, i) ==
  IF LookaheadPosition(animEvents, i) <= Len(animEvents)
  THEN EventEnd(animEvents[LookaheadPosition(animEvents, i)])
  ELSE Null

OwnTriggers(animEvents, g) ==
  {OwnTrigger(animEvents, i) : i \in MembersOf(animEvents, g)}

\* The latest of the members' triggers, no fade-out as soon as one has none.
LatestOf(triggers) ==
  IF Null \in triggers THEN Infinity
  ELSE CHOOSE t \in triggers : \A u \in triggers : u <= t

GroupTriggersAreLatest(animEvents, glt) ==
  /\ DOMAIN glt = GroupKeys(animEvents)
  /\ \A g \in GroupKeys(animEvents) : glt[g] = LatestOf(OwnTriggers(animEvents, g))

\* C27: for every group key the shared fade-out trigger computed in the
\* first pass is the maximum of the members' individual lookahead triggers,
\* and is "no fade-out" if at least one member has no lookahead target,
\* whatever the order of the members in the event list.
C27_GroupTriggerIsLatest ==
  view # NotRendered
    => GroupTriggersAreLatest(AnimEvents, groupLatestTriggerFrame(AnimEvents))

EarlierMemberIsLatest(animEvents, glt) ==
  \E g \in DOMAIN glt :
    /\ glt[g] # Infinity
    /\ \E i, j \in MembersOf(animEvents, g) :
         /\ i < j
         /\ OwnTrigger(animEvents, j) < OwnTrigger(animEvents, i)
         /\ glt[g] = OwnTrigger(animEvents, i)

\* A group whose latest trigger belongs to a member that is not the last.
C27_Witness ==
  /\ view # NotRendered
  /\ EarlierMemberIsLatest(AnimEvents, groupLatestTriggerFrame(AnimEvents))

\* The center of a connection end: a node's center, or the point of the
\* container's named border at the height of its first row.
CenterAt(lay, target) ==
  IF target.kind = "node" THEN lay.nodes[target.id].center
  ELSE Point(IF target.edge = "left" THEN lay.containers[target.container].left
             ELSE RAdd(lay.containers[target.container].left,
                       lay.containers[target.container].width),
             outerCellCenter(gridMetrics(config.grid),
                             lay.containers[target.container].def.span.fromRow, 0).y)

\* The edge of a connection end: the one given, else the one toward the other
\* end for a node, else the container's named border.
EdgeAt(given, target, here, there) ==
  IF given # Undefined THEN given
  ELSE IF target.kind = "node"
  THEN EdgeToward(RSub(there.x, here.x), RSub(there.y, here.y))
  ELSE target.edge

AnchorAt(lay, target, edge, center) ==
  IF target.kind = "node" THEN AnchorOn(lay.nodes[target.id], edge) ELSE center

Sideways(edge) == edge \in {"left", "right"}
Upright(edge) == edge \in {"top", "bottom"}
Near(a, b) == RLt(RAbs(RSub(a, b)), One)
Midway(a, b) == RDiv(RAdd(a, b), Num(2))

ViaMidX(from, to) ==
  <<from, Point(Midway(from.x, to.x), from.y), Point(Midway(from.x, to.x), to.y), to>>
ViaMidY(from, to) ==
  <<from, Point(from.x, Midway(from.y, to.y)), Point(to.x, Midway(from.y, to.y)), to>>

SelectedRoute(cdef, from, fromEdge, to, toEdge) ==
  IF cdef.waypoints # NoWaypoints THEN <<from>> \o cdef.waypoints \o <<to>>
  ELSE IF Near(from.y, to.y) \/ Near(from.x, to.x) THEN <<from, to>>
  ELSE IF Sideways(fromEdge) /\ Sideways(toEdge) THEN ViaMidX(from, to)
  ELSE IF Upright(fromEdge) /\ Upright(toEdge) THEN <<from, to>>
  ELSE ViaMidY(from, to)

RouteBetween(c, from, fromEdge, to, toEdge) ==
  /\ c.points = SelectedRoute(c.def, from, fromEdge, to, toEdge)
  /\ Len(c.points) >= 2
  /\ c.points[1] = from
  /\ c.points[Len(c.points)] = to

RouteWithEdges(lay, c, here, there, fromEdge, toEdge) ==
  RouteBetween(c, AnchorAt(lay, c.def.from, fromEdge, here), fromEdge,
               AnchorAt(lay, c.def.to, toEdge, there), toEdge)

RouteFromCenters(lay, c, here, there) ==
  RouteWithEdges(lay, c, here, there,
                 EdgeAt(c.def.fromEdge, c.def.from, here, there),
                 EdgeAt(c.def.toEdge, c.def.to, there, here))

RouteSelected(lay, c) ==
  RouteFromCenters(lay, c, CenterAt(lay, c.def.from), CenterAt(lay, c.def.to))

\* C28: the resolved points of a connection are [fromAnchor, ...waypoints,
\* toAnchor] whenever waypoints are supplied; otherwise the 2-point line if
\* the anchors' y or x differ by less than 1, else the 4-point path through
\* midX when both edges are left/right, else the 2-point line when both are
\* top/bottom, else the 4-point path through midY; every path has at least
\* 2 points and starts and ends at the two anchors.
C28_RouteSelection ==
  LaidOut =>
    \A i \in 1..Len(layout.connections) : RouteSelected(layout, layout.connections[i])

MixedRoute(c) ==
  /\ c.def.waypoints = NoWaypoints
  /\ c.def.fromEdge = "right"
  /\ c.def.toEdge = "top"
  /\ Len(c.points) = 4
  /\ c.points[2].x = c.points[1].x
  /\ c.points[3].x = c.points[4].x
  /\ c.points[2].y = c.points[3].y
  /\ c.points[1].y # c.points[4].y

\* A connection leaving by the right edge and entering by the top edge is
\* routed through the vertical midpoint.
C28_Witness ==
  /\ LaidOut
  /\ \E i \in 1..Len(layout.connections) : MixedRoute(layout.connections[i])

\* The dimBox events aimed at a node of the diagram.
DimBoxes(animEvents) ==
  {i \in 1..Len(animEvents) :
     animEvents[i].action = "dimBox" /\ animEvents[i].target \in DOMAIN tstate.nodes}

\* What the fillBox events and the global floor give node n at this frame.
LitBy(animEvents, glt, n) ==
  RMax(maxBrightOf(animEvents, glt, "fillBox", n, fps, frame), tstate.globalFloor)

\* The dimming of the target of dimBox i by the other dimBox events on it.
DimmedByOthers(animEvents, i) ==
  RMaxOver({eventDrawProgress(animEvents[j], frame) :
              j \in Matching(animEvents, "dimBox", animEvents[i].target) \ {i}})

DimBoxPermanent(animEvents, glt) ==
  \A i \in DimBoxes(animEvents) :
    /\ frame >= EventEnd(animEvents[i])
         => tstate.nodes[animEvents[i].target].brightness = Zero
    /\ frame <= animEvents[i].startFrame
         => tstate.nodes[animEvents[i].target].brightness
              = RMax(RSub(LitBy(animEvents, glt, animEvents[i].target),
                          DimmedByOthers(animEvents, i)), Zero)

RelitAfterDimBox(animEvents, glt) ==
  \E i \in DimBoxes(animEvents) :
    /\ frame >= EventEnd(animEvents[i])
    /\ tstate.nodes[animEvents[i].target].brightness = Zero
    /\ \E j \in Matching(animEvents, "fillBox", animEvents[i].target) :
         /\ j > i
         /\ eventEnvelope(animEvents[j], j, animEvents, glt, fps, frame) = One

LaterPhases(timeline, type) ==
  {k \in 1..Len(timeline) :
     timeline[k].type = type /\ \E j \in 1..(k - 1) : timeline[j].type = type}

\* The timeline with phase k replaced by a hold of the same duration.
HeldAt(timeline, k) ==
  [timeline EXCEPT ![k] = PhaseOf("hold", timeline[k].duration)]

SameGlobals(g) ==
  /\ tstate.globalFloor = g.globalFloor
  /\ tstate.globalOpacity = g.globalOpacity

Inert(timeline, later) ==
  \A k \in later :
    SameGlobals(computeGlobals(flattenTimeline(HeldAt(timeline, k), fps), frame))

\* C30: replacing any dim phase other than the first, or any reveal phase
\* other than the first, by a top-level hold of the same duration leaves
\* globalFloor and globalOpacity unchanged at every frame.
C30_LaterPhasesInert ==
  Evaluated =>
    Inert(config.timeline,
          LaterPhases(config.timeline, "dim")
            \cup LaterPhases(config.timeline, "reveal"))

====
